---- MODULE Spec2Model ----
(***************************************************************************)
(* State-machine model of the Odoo report/attendance/purchase-order fetch  *)
(* scripts: the retrying JSON-RPC POST (safe_post_json), the retrying      *)
(* report download (download_report_with_retries), the paginated           *)
(* attendance fetch of ot_head.py and the purchase-order pagination loop.  *)
(* The remote service is the environment: every POST draws its outcome     *)
(* (an exception or a response) from a small explicit set.                 *)
(***************************************************************************)
EXTENDS Integers, Sequences, FiniteSets, TLC

VARIABLES
    \* safe_post_json (src/Ot_data_fetch.py)
    retries,        \* the retries argument
    rpc_attempt,    \* the loop variable attempt
    rpc_pc,         \* "off" | "loop" | "done"
    rpc_data,       \* the value returned (None until then)
    rpc_posts,      \* outcome of every session.post made, in order
    rpc_sleeps,     \* argument of every time.sleep made, in order
    \* download_report_with_retries (src/Ot_data_fetch.py)
    max_attempts,   \* the max_attempts argument
    dl_attempt,     \* the loop variable attempt
    dl_pc,          \* "off" | "loop" | "valid" | "final_attempt" | "final_network" | "loop_end"
    dl_resp,        \* the value returned (None until then)
    dl_posts,       \* outcome of every session.post made, in order
    dl_sleeps,      \* argument of every time.sleep made, in order
    \* fetch_all_employees and fetch_attendance (src/ot_head.py)
    max_retries,    \* the max_retries argument of both functions
    oh_pc,          \* "off" | "employees" | "attendance" | "returned" | "raised"
    emp_attempt,    \* fetch_all_employees: the loop variable attempt (a local: gone on return)
    emp_log,        \* fetch_all_employees: outcome of every request made (a local: gone on return)
    employee_dict,  \* the mapping fetch_all_employees returned
    offset,         \* fetch_attendance: offset
    all_records,    \* fetch_attendance: all_records
    att_attempt,    \* fetch_attendance: the loop variable attempt
    att_log,        \* fetch_attendance: <<offset, outcome>> of every request for the current page
    emp_sleeps,     \* fetch_all_employees: argument of every backoff time.sleep (gone on return)
    emp_exit,       \* how fetch_all_employees ended: "" | "result" | "exhausted" | "loop_end" | "raised"
    att_sleeps,     \* fetch_attendance: argument of every backoff time.sleep for the current page
    throttles,      \* number of time.sleep(0.5) calls made between pages
    pages,          \* the non-empty pages the remote returned, in order
    att_exit,       \* how fetch_attendance ended: "" | "empty" | "no_result" | "exception" | "raised"
    records_14,     \* the list fetch_attendance returned (None until then)
    page_offsets,   \* fetch_attendance: the offset each accumulated page was requested with
    spent,          \* fetch_attendance: failed attempts made for the page accumulated last
    \* the purchase.order pagination loop (src/purchase_orders.py)
    po_pc,          \* "off" | "fetch" | "clean" (the loop was left by break) | "raised"
    po_offset,      \* offset
    po_all_records, \* all_records
    po_log,         \* <<offset, outcome>> of every request made, in order
    \* the top-level statements of the three scripts, from the login on
    run_script,       \* "" | "Ot_data_fetch" | "ot_head" | "purchase_orders"
    run_pc,           \* the statement to run next, or "done" | "exit"
    run_crash,        \* the exception that ended the process, "none" while it runs
    auth_result,      \* ot_head.py, purchase_orders.py: auth_result
    login_result,     \* Ot_data_fetch.py: login_result
    uid,              \* uid
    csrf_token,       \* Ot_data_fetch.py: csrf_token
    company_idx,      \* position of company_id in COMPANY_IDS
    onchange_data,    \* Ot_data_fetch.py: onchange_data
    web_save_data,    \* Ot_data_fetch.py: web_save_data
    wizard_id,        \* Ot_data_fetch.py: wizard_id
    call_button_data, \* Ot_data_fetch.py: call_button_data
    report_name,      \* Ot_data_fetch.py: report_name
    report_resp,      \* Ot_data_fetch.py: resp, what download_report_with_retries returned
    requests,         \* every request made, in order
    unit_exit,        \* how the loop body of each company was left, "" until then
    \* normalisation and aggregation (src/ot_head.py, src/purchase_orders.py)
    agg_script,       \* "" | "ot_head" | "purchase_orders"
    agg_pc,           \* "off" | "clean" | "frame" | "group" | "paste"
    agg_input,        \* the records as they were fetched
    agg_records,      \* records_14 / all_records, cleaned in place
    grouped,          \* grouped_14 (None until computed)
    agg_crash,        \* the exception that ended the process, "none" while it runs
    \* the writes to the destination worksheet (all three scripts)
    sheet_script,     \* the script that writes
    sheet_pc,         \* "off" | "read_excel" | "open" | "paste" | "clear" | "write" |
                      \* "timestamp" | "returned" | "skipped" | "done" | "raised"
    dataframe_empty,  \* dataframe.empty / df.empty
    paste_max_retries,\* paste_to_sheet_with_retry: the max_retries argument
    paste_attempt,    \* paste_to_sheet_with_retry: the loop variable attempt
    sheet_ops,        \* the worksheet calls made: <<attempt, operation, succeeded>>
    paste_sleeps,     \* the waits between the attempts, in seconds
    paste_result,     \* what paste_to_sheet_with_retry returned (None until then)
    \* smart_fix_dates_in_dataframe (src/Ot_data_fetch.py)
    fix_pc,           \* "off" | "call" | "returned"
    from_date,        \* <<year, month>> of from_date_str
    to_date,          \* <<year, month>> of to_date_str
    df_col,           \* one object column of df, before the call
    df_fixed          \* the same column of df_fixed (None until returned)

rpcVars == <<retries, rpc_attempt, rpc_pc, rpc_data, rpc_posts, rpc_sleeps>>

dlVars == <<max_attempts, dl_attempt, dl_pc, dl_resp, dl_posts, dl_sleeps>>

ohVars == <<max_retries, oh_pc, emp_attempt, emp_log, employee_dict, offset, all_records,
            att_attempt, att_log, emp_sleeps, emp_exit, att_sleeps, throttles, pages, att_exit, records_14,
            page_offsets, spent>>

poVars == <<po_pc, po_offset, po_all_records, po_log>>

runVars == <<run_script, run_pc, run_crash, auth_result, login_result, uid, csrf_token,
             company_idx, onchange_data, web_save_data, wizard_id, call_button_data,
             report_name, report_resp, requests, unit_exit>>

aggVars == <<agg_script, agg_pc, agg_input, agg_records, grouped, agg_crash>>

sheetVars == <<sheet_script, sheet_pc, dataframe_empty, paste_max_retries, paste_attempt,
               sheet_ops, paste_sleeps, paste_result>>

fixVars == <<fix_pc, from_date, to_date, df_col, df_fixed>>

vars == <<rpcVars, dlVars, ohVars, poVars, runVars, aggVars, sheetVars, fixVars>>

(***************************************************************************)
(* Bounds of the model.                                                    *)
(***************************************************************************)
\* largest retries argument of safe_post_json explored
MaxRetries == 7

\* largest max_attempts argument of download_report_with_retries explored
MaxAttempts == 7

\* largest max_retries argument of fetch_all_employees / fetch_attendance explored
MaxFetchRetries == 3

\* most non-empty pages the remote returns to one paginated fetch
MaxPages == 2

(***************************************************************************)
(* Python values and helpers shared by the three scripts.                  *)
(***************************************************************************)
None == [py |-> "None"]

ValueError == [py |-> "ValueError"]

Min(a, b) == IF a < b THEN a ELSE b

RECURSIVE Pow2(_)
Pow2(n) == IF n = 0 THEN 1 ELSE 2 * Pow2(n - 1)

\* the cap of the backoff: min(60, 2 ** attempt)
BackoffCap == 60

sleep_t_uncapped(attempt) == Pow2(attempt)

\* sleep_t = min(60, 2 ** attempt)
sleep_t(attempt) == Min(BackoffCap, Pow2(attempt))

(***************************************************************************)
(* Response bodies and resp.json().                                        *)
(***************************************************************************)
TxtUid == "{\"result\":{\"uid\":7}}"

TxtError == "{\"error\":{\"code\":100,\"message\":\"Odoo Session Expired\"}}"

TxtHtml == "<html>502 Bad Gateway</html>"

resp_json_rejects_error(text) ==
    CASE text = TxtUid -> [result |-> [uid |-> 7]]
      [] OTHER         -> ValueError

\* resp.json(): the parsed document, or ValueError for a body that is no JSON
resp_json(text) ==
    CASE text = TxtUid   -> [result |-> [uid |-> 7]]
      [] text = TxtError -> [error |-> [code |-> 100, message |-> "Odoo Session Expired"]]
      [] OTHER           -> ValueError

\* an outcome of session.post: requests.RequestException raised, or a response
RequestException == [exc |-> TRUE, status_code |-> 0, text |-> ""]

Response(status, text) == [exc |-> FALSE, status_code |-> status, text |-> text]

\* what the remote may answer to a JSON-RPC POST
RpcOutcomes ==
    { RequestException,
      Response(200, TxtUid), Response(200, TxtError), Response(200, TxtHtml),
      Response(404, TxtError), Response(404, TxtHtml),
      Response(503, TxtError) }

(***************************************************************************)
(* A function that is not the one being run: its variables rest.           *)
(***************************************************************************)
SafePostOff ==
    /\ retries = 0
    /\ rpc_attempt = 0
    /\ rpc_pc = "off"
    /\ rpc_data = None
    /\ rpc_posts = <<>>
    /\ rpc_sleeps = <<>>

DownloadOff ==
    /\ max_attempts = 0
    /\ dl_attempt = 0
    /\ dl_pc = "off"
    /\ dl_resp = None
    /\ dl_posts = <<>>
    /\ dl_sleeps = <<>>

OtHeadOff ==
    /\ max_retries = 0
    /\ oh_pc = "off"
    /\ emp_attempt = 0
    /\ emp_log = <<>>
    /\ employee_dict = [k \in {} |-> TRUE]
    /\ offset = 0
    /\ all_records = <<>>
    /\ att_attempt = 0
    /\ att_log = <<>>
    /\ emp_sleeps = <<>>
    /\ emp_exit = ""
    /\ att_sleeps = <<>>
    /\ throttles = 0
    /\ pages = <<>>
    /\ att_exit = ""
    /\ records_14 = None
    /\ page_offsets = <<>>
    /\ spent = 0

PurchaseOff ==
    /\ po_pc = "off"
    /\ po_offset = 0
    /\ po_all_records = <<>>
    /\ po_log = <<>>

RunOff ==
    /\ run_script = ""
    /\ run_pc = "off"
    /\ run_crash = "none"
    /\ auth_result = None
    /\ login_result = None
    /\ uid = None
    /\ csrf_token = None
    /\ company_idx = 0
    /\ onchange_data = None
    /\ web_save_data = None
    /\ wizard_id = None
    /\ call_button_data = None
    /\ report_name = None
    /\ report_resp = None
    /\ requests = <<>>
    /\ unit_exit = <<>>

AggOff ==
    /\ agg_script = ""
    /\ agg_pc = "off"
    /\ agg_input = <<>>
    /\ agg_records = <<>>
    /\ grouped = None
    /\ agg_crash = "none"

SheetOff ==
    /\ sheet_script = ""
    /\ sheet_pc = "off"
    /\ dataframe_empty = FALSE
    /\ paste_max_retries = 0
    /\ paste_attempt = 0
    /\ sheet_ops = <<>>
    /\ paste_sleeps = <<>>
    /\ paste_result = None

FixOff ==
    /\ fix_pc = "off"
    /\ from_date = <<0, 0>>
    /\ to_date = <<0, 0>>
    /\ df_col = <<>>
    /\ df_fixed = None

(***************************************************************************)
(* safe_post_json(session, url, payload, headers, retries, timeout)        *)
(***************************************************************************)
\* what a call of safe_post_json leaves alone
SafePostFrame == UNCHANGED <<dlVars, ohVars, poVars, runVars, aggVars, sheetVars, fixVars>>

is_server_error_4xx(resp) == resp.status_code >= 400

\* if resp.status_code >= 500
is_server_error(resp) == resp.status_code >= 500

more_attempts_inclusive(attempt, n) == attempt <= n

\* if attempt < retries
more_attempts(attempt, n) == attempt < n

\* the three identical failure tails: sleep and continue, or return None
SafePostFailed(o) ==
    /\ rpc_posts' = Append(rpc_posts, o)
    /\ IF more_attempts(rpc_attempt, retries)
       THEN /\ rpc_sleeps' = Append(rpc_sleeps, sleep_t(rpc_attempt))
            /\ rpc_attempt' = rpc_attempt + 1
            /\ UNCHANGED <<rpc_pc, rpc_data>>
       ELSE /\ rpc_pc' = "done"
            /\ rpc_data' = None
            /\ UNCHANGED <<rpc_attempt, rpc_sleeps>>
    /\ UNCHANGED retries
    /\ SafePostFrame

\* session.post raises requests.RequestException
SafePostRequestException ==
    /\ rpc_pc = "loop"
    /\ rpc_attempt <= retries
    /\ SafePostFailed(RequestException)

\* a response with status >= 500
SafePostServerError ==
    /\ rpc_pc = "loop"
    /\ rpc_attempt <= retries
    /\ \E o \in RpcOutcomes :
        /\ ~o.exc
        /\ is_server_error(o)
        /\ SafePostFailed(o)

\* a response below 500 whose body parses: return data
SafePostReturnData ==
    /\ rpc_pc = "loop"
    /\ rpc_attempt <= retries
    /\ \E o \in RpcOutcomes :
        /\ ~o.exc
        /\ ~is_server_error(o)
        /\ resp_json(o.text) # ValueError
        /\ rpc_posts' = Append(rpc_posts, o)
        /\ rpc_data' = resp_json(o.text)
        /\ rpc_pc' = "done"
        /\ UNCHANGED <<retries, rpc_attempt, rpc_sleeps>>
        /\ SafePostFrame

\* a response below 500 whose body does not parse (ValueError)
SafePostInvalidJson ==
    /\ rpc_pc = "loop"
    /\ rpc_attempt <= retries
    /\ \E o \in RpcOutcomes :
        /\ ~o.exc
        /\ ~is_server_error(o)
        /\ resp_json(o.text) = ValueError
        /\ SafePostFailed(o)

\* the for loop runs out (retries < 1): the function falls off its end
SafePostLoopEnd ==
    /\ rpc_pc = "loop"
    /\ rpc_attempt > retries
    /\ rpc_pc' = "done"
    /\ rpc_data' = None
    /\ UNCHANGED <<retries, rpc_attempt, rpc_posts, rpc_sleeps>>
    /\ SafePostFrame

SafePostInit ==
    /\ retries \in 0..MaxRetries
    /\ rpc_attempt = 1
    /\ rpc_pc = "loop"
    /\ rpc_data = None
    /\ rpc_posts = <<>>
    /\ rpc_sleeps = <<>>
    /\ DownloadOff
    /\ OtHeadOff
    /\ PurchaseOff
    /\ RunOff
    /\ AggOff
    /\ SheetOff
    /\ FixOff

SafePostNext ==
    \/ SafePostRequestException
    \/ SafePostServerError
    \/ SafePostReturnData
    \/ SafePostInvalidJson
    \/ SafePostLoopEnd

SpecSafePost == SafePostInit /\ [][SafePostNext]_vars

(***************************************************************************)
(* Claims about safe_post_json, checked under SpecSafePost.                *)
(***************************************************************************)
\* an attempt that failed by a network error or a 5xx response
IsNetworkOr5xx(o) == o.exc \/ o.status_code >= 500

\* an attempt whose response is below 500 and carries well-formed JSON
IsGoodJson(o) == ~o.exc /\ o.status_code < 500 /\ resp_json(o.text) # ValueError

\* an attempt that failed: network error, 5xx, or a body that is no JSON
IsFailedAttempt(o) == ~IsGoodJson(o)

Is4xx(o) == ~o.exc /\ o.status_code >= 400 /\ o.status_code < 500

ExpectedSleep(a) == IF Pow2(a) < 60 THEN Pow2(a) ELSE 60

\* C1: k < N attempts failing by network error or 5xx, then a non-5xx
\* response with valid JSON: the call returns that parsed body after exactly
\* k+1 POSTs and k sleeps, the a-th sleep lasting min(60, 2^a); and while
\* only such failures have happened and attempts remain, the call goes on.
C1_RetryThenSuccess ==
    /\ \A n \in 1..Len(rpc_posts) :
        ( /\ \A i \in 1..(n - 1) : IsNetworkOr5xx(rpc_posts[i])
          /\ IsGoodJson(rpc_posts[n]) )
        => /\ n <= retries
           /\ rpc_pc = "done"
           /\ rpc_data = resp_json(rpc_posts[n].text)
           /\ Len(rpc_posts) = n
           /\ Len(rpc_sleeps) = n - 1
           /\ \A a \in 1..(n - 1) : rpc_sleeps[a] = ExpectedSleep(a)
    /\ ( /\ \A i \in 1..Len(rpc_posts) : IsNetworkOr5xx(rpc_posts[i])
         /\ Len(rpc_posts) < retries )
       => /\ rpc_pc = "loop"
          /\ rpc_attempt = Len(rpc_posts) + 1
          /\ Len(rpc_sleeps) = Len(rpc_posts)

\* the scenario 503, 503, 200 {"result":{"uid":7}} under retries = 3
C1_Witness ==
    /\ retries = 3
    /\ rpc_pc = "done"
    /\ rpc_posts = <<Response(503, TxtError), Response(503, TxtError), Response(200, TxtUid)>>
    /\ rpc_sleeps = <<2, 4>>
    /\ rpc_data = [result |-> [uid |-> 7]]

\* C2: after N >= 1 consecutive failed attempts (network error, 5xx or
\* unparseable body, in any mix) the call has ended with None, having made
\* exactly N POSTs and N-1 sleeps; it never makes more than N POSTs.
C2_ExhaustedReturnsNone ==
    /\ Len(rpc_posts) <= retries
    /\ ( /\ retries >= 1
         /\ Len(rpc_posts) = retries
         /\ \A i \in 1..Len(rpc_posts) : IsFailedAttempt(rpc_posts[i]) )
       => /\ rpc_pc = "done"
          /\ rpc_data = None
          /\ Len(rpc_sleeps) = retries - 1

\* three failures of three kinds under retries = 3
C2_Witness ==
    /\ retries = 3
    /\ rpc_pc = "done"
    /\ rpc_posts = <<RequestException, Response(503, TxtError), Response(200, TxtHtml)>>
    /\ rpc_data = None
    /\ rpc_sleeps = <<2, 4>>

\* C3 as stated: no POST follows a 4xx response, whatever its body, and
\* only network errors and 5xx responses are followed by another attempt.
C3_No4xxRetried ==
    \A i \in 1..(Len(rpc_posts) - 1) :
        /\ ~Is4xx(rpc_posts[i])
        /\ IsNetworkOr5xx(rpc_posts[i])

\* C3 amended: a 4xx response whose body is well-formed JSON ends the call
\* with that body and is never followed by another POST; a 4xx response is
\* followed by another attempt only when its body is no JSON; every attempt
\* that is followed by another one failed by network error, 5xx or
\* unparseable body.
C3_4xxRetriedOnlyOnInvalidJson ==
    /\ \A i \in 1..(Len(rpc_posts) - 1) :
        /\ Is4xx(rpc_posts[i]) => resp_json(rpc_posts[i].text) = ValueError
        /\ IsFailedAttempt(rpc_posts[i])
    /\ \A i \in 1..Len(rpc_posts) :
        (Is4xx(rpc_posts[i]) /\ resp_json(rpc_posts[i].text) # ValueError)
        => /\ i = Len(rpc_posts)
           /\ rpc_pc = "done"
           /\ rpc_data = resp_json(rpc_posts[i].text)

\* a 404 with an HTML body is retried; the 404 with a JSON body then returns
C3_Witness ==
    /\ rpc_pc = "done"
    /\ rpc_posts = <<Response(404, TxtHtml), Response(404, TxtError)>>
    /\ rpc_sleeps = <<2>>
    /\ rpc_data = resp_json(TxtError)

(***************************************************************************)
(* download_report_with_retries(session, url, data, headers, max_attempts) *)
(*                                                                         *)
(* A header value is a sequence of tokens (lower() and the substring test  *)
(* work token by token); resp.content is a sequence of byte values.        *)
(***************************************************************************)
XlsxMime == "openxmlformats-officedocument.spreadsheetml.sheet"

CtXlsx == <<"application/vnd.", "openxmlformats-officedocument.spreadsheetml.sheet">>

CtXlsxMixedCase == <<"Application/VND.", "OpenXMLFormats-OfficeDocument.SpreadsheetML.Sheet", "; charset=binary">>

CtHtml == <<"text/html", "; charset=utf-8">>

\* str.lower() of one token
lower_token(t) ==
    CASE t = "Application/VND." -> "application/vnd."
      [] t = "OpenXMLFormats-OfficeDocument.SpreadsheetML.Sheet" -> "openxmlformats-officedocument.spreadsheetml.sheet"
      [] OTHER -> t

\* str.lower()
lower(s) == [i \in 1..Len(s) |-> lower_token(s[i])]

\* needle in haystack
contains(needle, haystack) == \E i \in 1..Len(haystack) : haystack[i] = needle

\* bytes.startswith
startswith(content, prefix) ==
    /\ Len(content) >= Len(prefix)
    /\ SubSeq(content, 1, Len(prefix)) = prefix

\* b"PK"
PK == <<80, 75>>

BytesXlsx == <<80, 75, 3, 4, 20>>

BytesHtml == <<60, 104, 116, 109, 108>>

\* resp.headers.get(name, default); headers are a set of <<name, value>>
headers_get(headers, name, default) ==
    IF \E h \in headers : h[1] = name
    THEN (CHOOSE h \in headers : h[1] = name)[2]
    ELSE default

DownloadException == [exc |-> TRUE, status_code |-> 0, headers |-> {}, content |-> <<>>]

DownloadResponse(status, headers, content) ==
    [exc |-> FALSE, status_code |-> status, headers |-> headers, content |-> content]

\* what the remote may answer to the report download POST
DownloadOutcomes ==
    { DownloadException,
      DownloadResponse(200, {<<"content-type", CtXlsx>>}, BytesXlsx),
      DownloadResponse(200, {<<"content-type", CtHtml>>}, BytesXlsx),
      DownloadResponse(200, {}, BytesXlsx),
      DownloadResponse(200, {<<"content-type", CtXlsxMixedCase>>}, BytesHtml),
      DownloadResponse(200, {<<"content-type", CtHtml>>}, BytesHtml),
      DownloadResponse(404, {<<"content-type", CtXlsx>>}, BytesXlsx),
      DownloadResponse(500, {}, BytesHtml) }

\* is_xlsx_by_type = "openxmlformats-..." in content_type.lower()
is_xlsx_by_type(resp) == contains(XlsxMime, lower(headers_get(resp.headers, "content-type", <<>>)))

\* is_zip_header = isinstance(resp.content, bytes) and resp.content.startswith(b"PK")
is_zip_header(resp) == startswith(resp.content, PK)

is_valid_download_any_status(resp) ==
    (resp.status_code = 200 /\ is_xlsx_by_type(resp)) \/ is_zip_header(resp)

\* if resp.status_code == 200 and (is_xlsx_by_type or is_zip_header)
is_valid_download(resp) ==
    resp.status_code = 200 /\ (is_xlsx_by_type(resp) \/ is_zip_header(resp))

download_sleep_t_from_zero(attempt) == Min(BackoffCap, Pow2(attempt - 1))

\* sleep_t = min(60, 2 ** attempt)
download_sleep_t(attempt) == Min(BackoffCap, Pow2(attempt))

final_attempt_none(resp) == None

\* the value returned when the final attempt got an invalid response: return resp
final_attempt_result(resp) == resp

\* what a call of download_report_with_retries leaves alone
DownloadFrame == UNCHANGED <<rpcVars, ohVars, poVars, runVars, aggVars, sheetVars, fixVars>>

\* session.post raises requests.RequestException
DownloadRequestException ==
    /\ dl_pc = "loop"
    /\ dl_attempt <= max_attempts
    /\ dl_posts' = Append(dl_posts, DownloadException)
    /\ IF dl_attempt < max_attempts
       THEN /\ dl_sleeps' = Append(dl_sleeps, download_sleep_t(dl_attempt))
            /\ dl_attempt' = dl_attempt + 1
            /\ UNCHANGED <<dl_pc, dl_resp>>
       ELSE /\ dl_pc' = "final_network"
            /\ dl_resp' = None
            /\ UNCHANGED <<dl_attempt, dl_sleeps>>
    /\ UNCHANGED max_attempts
    /\ DownloadFrame

\* a response that passes the check: return resp
DownloadReturnValid ==
    /\ dl_pc = "loop"
    /\ dl_attempt <= max_attempts
    /\ \E o \in DownloadOutcomes :
        /\ ~o.exc
        /\ is_valid_download(o)
        /\ dl_posts' = Append(dl_posts, o)
        /\ dl_resp' = o
        /\ dl_pc' = "valid"
        /\ UNCHANGED <<max_attempts, dl_attempt, dl_sleeps>>
        /\ DownloadFrame

\* a response that fails the check: sleep and continue, or return it
DownloadInvalid ==
    /\ dl_pc = "loop"
    /\ dl_attempt <= max_attempts
    /\ \E o \in DownloadOutcomes :
        /\ ~o.exc
        /\ ~is_valid_download(o)
        /\ dl_posts' = Append(dl_posts, o)
        /\ IF dl_attempt < max_attempts
           THEN /\ dl_sleeps' = Append(dl_sleeps, download_sleep_t(dl_attempt))
                /\ dl_attempt' = dl_attempt + 1
                /\ UNCHANGED <<dl_pc, dl_resp>>
           ELSE /\ dl_pc' = "final_attempt"
                /\ dl_resp' = final_attempt_result(o)
                /\ UNCHANGED <<dl_attempt, dl_sleeps>>
        /\ UNCHANGED max_attempts
        /\ DownloadFrame

\* the for loop runs out (max_attempts < 1): the function falls off its end
DownloadLoopEnd ==
    /\ dl_pc = "loop"
    /\ dl_attempt > max_attempts
    /\ dl_pc' = "loop_end"
    /\ dl_resp' = None
    /\ UNCHANGED <<max_attempts, dl_attempt, dl_posts, dl_sleeps>>
    /\ DownloadFrame

DownloadInit ==
    /\ max_attempts \in 0..MaxAttempts
    /\ dl_attempt = 1
    /\ dl_pc = "loop"
    /\ dl_resp = None
    /\ dl_posts = <<>>
    /\ dl_sleeps = <<>>
    /\ SafePostOff
    /\ OtHeadOff
    /\ PurchaseOff
    /\ RunOff
    /\ AggOff
    /\ SheetOff
    /\ FixOff

DownloadNext ==
    \/ DownloadRequestException
    \/ DownloadReturnValid
    \/ DownloadInvalid
    \/ DownloadLoopEnd

SpecDownload == DownloadInit /\ [][DownloadNext]_vars

(***************************************************************************)
(* Claims about download_report_with_retries, checked under SpecDownload.  *)
(***************************************************************************)
DlReturned == dl_pc \in {"valid", "final_attempt", "final_network", "loop_end"}

\* the spreadsheet test in the claim's words: status 200 and (the
\* content-type, case folded, names the spreadsheet MIME type or the body
\* starts with the bytes P, K)
NamesSpreadsheetMime(o) ==
    \E h \in o.headers :
        /\ h[1] = "content-type"
        /\ \E i \in 1..Len(h[2]) :
            h[2][i] \in { "openxmlformats-officedocument.spreadsheetml.sheet",
                          "OpenXMLFormats-OfficeDocument.SpreadsheetML.Sheet" }

StartsWithPK(o) == Len(o.content) >= 2 /\ o.content[1] = 80 /\ o.content[2] = 75

IsSpreadsheet200(o) ==
    ~o.exc /\ o.status_code = 200 /\ (NamesSpreadsheetMime(o) \/ StartsWithPK(o))

\* every attempt made failed (network error, wrong status or wrong content)
AllDownloadsFailed == \A i \in 1..Len(dl_posts) : ~IsSpreadsheet200(dl_posts[i])

\* the last response obtained, over all attempts made
LastResponseObtained ==
    LET got == { i \in 1..Len(dl_posts) : ~dl_posts[i].exc }
    IN  dl_posts[CHOOSE i \in got : \A j \in got : j <= i]

\* C4 as stated: when all M attempts failed and at least one obtained a
\* response, the call returns the last response obtained.
C4_ReturnsLastResponseObtained ==
    ( /\ max_attempts >= 1
      /\ Len(dl_posts) = max_attempts
      /\ AllDownloadsFailed
      /\ \E i \in 1..Len(dl_posts) : ~dl_posts[i].exc )
    => /\ DlReturned
       /\ dl_resp = LastResponseObtained

\* C4 amended: when all M attempts failed the call has returned: the
\* response of the M-th attempt if that attempt obtained one (invalid as it
\* is), and None if the M-th attempt ended in a network error, whatever the
\* earlier attempts obtained.
C4_ReturnsFinalAttemptResponse ==
    ( /\ max_attempts >= 1
      /\ Len(dl_posts) = max_attempts
      /\ AllDownloadsFailed )
    => /\ DlReturned
       /\ dl_resp = IF dl_posts[max_attempts].exc THEN None ELSE dl_posts[max_attempts]

\* a 500, a network error, then an HTML page with status 200: the page is returned
C4_Witness ==
    /\ max_attempts = 3
    /\ dl_posts = << DownloadResponse(500, {}, BytesHtml),
                     DownloadException,
                     DownloadResponse(200, {<<"content-type", CtHtml>>}, BytesHtml) >>
    /\ dl_pc = "final_attempt"
    /\ dl_resp = DownloadResponse(200, {<<"content-type", CtHtml>>}, BytesHtml)

\* C5: a response is returned by the success return, at once and with no
\* sleep after it, exactly when it has status 200 and is a spreadsheet by
\* content-type or by the PK signature.
C5_ValidIffStatus200AndXlsx ==
    \A i \in 1..Len(dl_posts) :
        IsSpreadsheet200(dl_posts[i])
        <=> /\ i = Len(dl_posts)
            /\ dl_pc = "valid"
            /\ dl_resp = dl_posts[i]
            /\ Len(dl_sleeps) = i - 1

\* a 404 with the right content-type and PK body was rejected, then a 200
\* with content-type text/html and PK body was accepted
C5_Witness ==
    /\ dl_pc = "valid"
    /\ dl_posts = << DownloadResponse(404, {<<"content-type", CtXlsx>>}, BytesXlsx),
                     DownloadResponse(200, {<<"content-type", CtHtml>>}, BytesXlsx) >>
    /\ dl_resp = DownloadResponse(200, {<<"content-type", CtHtml>>}, BytesXlsx)
    /\ dl_sleeps = <<2>>

\* C6: at most M POSTs; a sleep of min(60, 2^a) follows each failed attempt
\* a < M and nothing else; no sleep follows the M-th attempt; five
\* attempts answered 200 text/html end with the 5th response returned.
C6_DownloadBackoff ==
    /\ Len(dl_posts) <= max_attempts
    /\ Len(dl_sleeps) = IF dl_pc = "loop" \/ Len(dl_posts) = 0
                        THEN Len(dl_posts) ELSE Len(dl_posts) - 1
    /\ Len(dl_sleeps) < max_attempts \/ max_attempts = 0
    /\ \A a \in 1..Len(dl_sleeps) :
        /\ dl_sleeps[a] = ExpectedSleep(a)
        /\ ~IsSpreadsheet200(dl_posts[a])
    /\ ( /\ max_attempts = 5
         /\ Len(dl_posts) = 5
         /\ \A i \in 1..5 : dl_posts[i] = DownloadResponse(200, {<<"content-type", CtHtml>>}, BytesHtml) )
       => /\ DlReturned
          /\ dl_resp = dl_posts[5]
          /\ Len(dl_sleeps) = 4

\* five attempts, each answered 200 text/html
C6_Witness ==
    /\ max_attempts = 5
    /\ dl_pc = "final_attempt"
    /\ dl_posts = [i \in 1..5 |-> DownloadResponse(200, {<<"content-type", CtHtml>>}, BytesHtml)]
    /\ dl_sleeps = <<2, 4, 8, 16>>
    /\ dl_resp = DownloadResponse(200, {<<"content-type", CtHtml>>}, BytesHtml)

(***************************************************************************)
(* ot_head.py: records, responses and the helpers of the two fetchers.     *)
(*                                                                         *)
(* A many2one value is the list [id, label] or False; a response carries   *)
(* the document resp.json() yields, or NotJson when the body is no JSON.   *)
(***************************************************************************)
PyFalse == [type |-> "bool", items |-> <<>>]

Many2one(id, label) == [type |-> "list", items |-> <<id, label>>]

rec1 == [id |-> 1, employee_id |-> Many2one(1, "Alice"), worked_hours |-> 8]

rec2 == [id |-> 2, employee_id |-> Many2one(2, "Bob"), worked_hours |-> 9]

rec3 == [id |-> 3, employee_id |-> PyFalse, worked_hours |-> 0]

\* the non-empty pages the remote may return to search_read
PagePool == { <<rec1, rec2>>, <<rec3>>, <<rec1>>, <<rec3, rec2>> }

\* the results the remote may return to the hr.employee search_read
EmployeeLists == { <<>>, <<[id |-> 1, active |-> FALSE]>> }

NotJson == [py |-> "JSONDecodeError"]

ErrorDoc == [error |-> [code |-> 200, message |-> "Odoo Server Error"]]

ResultDoc(result) == [result |-> result]

OhConnectionError == [exc |-> TRUE, status_code |-> 0, doc |-> NotJson]

OhResponse(status, doc) == [exc |-> FALSE, status_code |-> status, doc |-> doc]

\* the outcomes of session.post that carry no "result"
OhFailures ==
    { OhConnectionError,
      OhResponse(404, ErrorDoc),
      OhResponse(503, NotJson),
      OhResponse(200, NotJson),
      OhResponse(200, ErrorDoc) }

\* the exception session.post, resp.raise_for_status() or resp.json() raises
exception_raised(o) ==
    CASE o.exc                -> "ConnectionError"
      [] o.status_code >= 400 -> "HTTPError"
      [] o.doc = NotJson      -> "JSONDecodeError"
      [] OTHER                -> "none"

\* the classes of requests.exceptions an exception is an instance of
Bases(kind) ==
    CASE kind = "ConnectionError" -> {"ConnectionError", "RequestException"}
      [] kind = "Timeout"         -> {"Timeout", "RequestException"}
      [] kind = "HTTPError"       -> {"HTTPError", "RequestException"}
      [] kind = "JSONDecodeError" -> {"JSONDecodeError", "InvalidJSONError", "RequestException", "ValueError"}
      [] OTHER                    -> {kind}

caught_connection_only(kind) == Bases(kind) \cap {"ConnectionError", "Timeout"} # {}

\* except (HTTPError, ConnectionError, Timeout, RequestException)
caught(kind) ==
    Bases(kind) \cap {"HTTPError", "ConnectionError", "Timeout", "RequestException"} # {}

\* the cap of wait_time = min(2 ** attempt, 60)
WaitCap == 60

\* wait_time = min(2 ** attempt, 60)
wait_time(attempt) == Min(Pow2(attempt), WaitCap)

\* limit = 1000
limit == 1000

EmptyDict == [k \in {} |-> TRUE]

\* dict.get(key, default)
dict_get(d, key, default) == IF key \in DOMAIN d THEN d[key] ELSE default

\* {emp['id']: emp['active'] for emp in resp_json['result']}
dict_from_employees(emps) ==
    [k \in {emps[i].id : i \in 1..Len(emps)} |->
        LET last == CHOOSE i \in 1..Len(emps) :
                        /\ emps[i].id = k
                        /\ \A j \in 1..Len(emps) : emps[j].id = k => j <= i
        IN  emps[last].active]

employee_active_default_false(record, d) ==
    LET emp_id == record.employee_id
    IN  IF emp_id.type = "list" /\ Len(emp_id.items) >= 1
        THEN dict_get(d, emp_id.items[1], FALSE)
        ELSE dict_get(d, 0, FALSE)

\* record['employee_active'] = employee_dict.get(emp_id, True); when
\* employee_id is False the key is False, which hashes as 0
employee_active(record, d) ==
    LET emp_id == record.employee_id
    IN  IF emp_id.type = "list" /\ Len(emp_id.items) >= 1
        THEN dict_get(d, emp_id.items[1], TRUE)
        ELSE dict_get(d, 0, TRUE)

\* the record after record['employee_active'] = ...
enriched(record, d) ==
    [f \in DOMAIN record \cup {"employee_active"} |->
        IF f = "employee_active" THEN employee_active(record, d) ELSE record[f]]

list_extend_overwrite(a, b) == b

\* all_records.extend(records)
list_extend(a, b) == a \o b

exhausted_result_empty(records) == <<>>

\* return all_records, after max_retries failed attempts
exhausted_result(records) == records

attempt_after_page_kept(attempt) == attempt

\* for attempt in range(1, max_retries + 1), entered again for the next page
attempt_after_page(attempt) == 1

next_offset_same(o) == o

\* offset += limit
next_offset(o) == o + limit

\* what the two fetchers of ot_head.py leave alone
OtHeadFrame == UNCHANGED <<rpcVars, dlVars, poVars, runVars, aggVars, sheetVars, fixVars>>

empVars == <<emp_attempt, emp_log, employee_dict, emp_sleeps, emp_exit>>

attVars == <<offset, all_records, att_attempt, att_log, att_sleeps, throttles, pages,
             att_exit, records_14, page_offsets, spent>>

(***************************************************************************)
(* fetch_all_employees(context, max_retries)                               *)
(***************************************************************************)
\* return employee_dict: the locals of the call are gone
EmployeesReturn(how, value) ==
    /\ employee_dict' = value
    /\ emp_exit' = how
    /\ oh_pc' = "attendance"
    /\ emp_attempt' = 0
    /\ emp_log' = <<>>
    /\ emp_sleeps' = <<>>

\* a failed attempt: wait and go on, or return {} after the last one
EmployeesFailed(o) ==
    IF emp_attempt < max_retries
    THEN /\ emp_log' = Append(emp_log, o)
         /\ emp_sleeps' = Append(emp_sleeps, wait_time(emp_attempt))
         /\ emp_attempt' = emp_attempt + 1
         /\ UNCHANGED <<oh_pc, employee_dict, emp_exit>>
    ELSE EmployeesReturn("exhausted", EmptyDict)

\* session.post, raise_for_status or resp.json() raises
EmployeesException ==
    /\ oh_pc = "employees"
    /\ emp_attempt <= max_retries
    /\ \E o \in OhFailures :
        /\ exception_raised(o) # "none"
        /\ IF caught(exception_raised(o))
           THEN EmployeesFailed(o)
           ELSE /\ emp_log' = Append(emp_log, o)
                /\ oh_pc' = "raised"
                /\ emp_exit' = "raised"
                /\ UNCHANGED <<emp_attempt, emp_sleeps, employee_dict>>
    /\ UNCHANGED <<max_retries, attVars>>
    /\ OtHeadFrame

\* a JSON document without "result"
EmployeesNoResult ==
    /\ oh_pc = "employees"
    /\ emp_attempt <= max_retries
    /\ \E o \in OhFailures :
        /\ exception_raised(o) = "none"
        /\ "result" \notin DOMAIN o.doc
        /\ EmployeesFailed(o)
    /\ UNCHANGED <<max_retries, attVars>>
    /\ OtHeadFrame

\* a JSON document with "result": return the id -> active mapping
EmployeesResult ==
    /\ oh_pc = "employees"
    /\ emp_attempt <= max_retries
    /\ \E emps \in EmployeeLists :
        EmployeesReturn("result", dict_from_employees(emps))
    /\ UNCHANGED <<max_retries, attVars>>
    /\ OtHeadFrame

\* the for loop runs out (max_retries < 1): return {}
EmployeesLoopEnd ==
    /\ oh_pc = "employees"
    /\ emp_attempt > max_retries
    /\ EmployeesReturn("loop_end", EmptyDict)
    /\ UNCHANGED <<max_retries, attVars>>
    /\ OtHeadFrame

(***************************************************************************)
(* fetch_attendance(context, employee_dict, max_retries)                   *)
(***************************************************************************)
AttendanceGoesOn(how, value) == UNCHANGED <<oh_pc, att_exit, records_14>>

\* return all_records
AttendanceReturn(how, value) ==
    /\ oh_pc' = "returned"
    /\ att_exit' = how
    /\ records_14' = value

\* a failed attempt: wait and go on, or return the partial list after the last one
AttendanceFailed(o, how) ==
    /\ att_log' = Append(att_log, <<offset, o>>)
    /\ IF att_attempt < max_retries
       THEN /\ att_sleeps' = Append(att_sleeps, wait_time(att_attempt))
            /\ att_attempt' = att_attempt + 1
            /\ UNCHANGED <<oh_pc, att_exit, records_14>>
       ELSE /\ AttendanceReturn(how, exhausted_result(all_records))
            /\ UNCHANGED <<att_attempt, att_sleeps>>

\* session.post, raise_for_status or resp.json() raises
AttendanceException ==
    /\ oh_pc = "attendance"
    /\ att_attempt <= max_retries
    /\ \E o \in OhFailures :
        /\ exception_raised(o) # "none"
        /\ IF caught(exception_raised(o))
           THEN AttendanceFailed(o, "exception")
           ELSE /\ att_log' = Append(att_log, <<offset, o>>)
                /\ oh_pc' = "raised"
                /\ att_exit' = "raised"
                /\ UNCHANGED <<att_attempt, att_sleeps, records_14>>
    /\ UNCHANGED <<max_retries, empVars, offset, all_records, throttles, pages, page_offsets, spent>>
    /\ OtHeadFrame

\* a JSON document without "result"
AttendanceNoResult ==
    /\ oh_pc = "attendance"
    /\ att_attempt <= max_retries
    /\ \E o \in OhFailures :
        /\ exception_raised(o) = "none"
        /\ "result" \notin DOMAIN o.doc
        /\ AttendanceFailed(o, "no_result")
    /\ UNCHANGED <<max_retries, empVars, offset, all_records, throttles, pages, page_offsets, spent>>
    /\ OtHeadFrame

\* an empty page: leave the while loop and return all_records
AttendanceEmptyPage ==
    /\ oh_pc = "attendance"
    /\ att_attempt <= max_retries
    /\ att_log' = Append(att_log, <<offset, OhResponse(200, ResultDoc(<<>>))>>)
    /\ AttendanceReturn("empty", all_records)
    /\ UNCHANGED <<max_retries, empVars, offset, all_records, att_attempt, att_sleeps,
                   throttles, pages, page_offsets, spent>>
    /\ OtHeadFrame

\* a non-empty page: enrich every record, extend all_records, advance the
\* offset, sleep 0.5 s and start the next page's retry loop
AttendancePage ==
    /\ oh_pc = "attendance"
    /\ att_attempt <= max_retries
    /\ Len(pages) < MaxPages
    /\ \E records \in PagePool :
        /\ all_records' = list_extend(all_records,
                [i \in 1..Len(records) |-> enriched(records[i], employee_dict)])
        /\ pages' = Append(pages, records)
    /\ page_offsets' = Append(page_offsets, offset)
    /\ spent' = Len(att_log)
    /\ offset' = next_offset(offset)
    /\ throttles' = throttles + 1
    /\ att_attempt' = attempt_after_page(att_attempt)
    /\ att_log' = <<>>
    /\ att_sleeps' = <<>>
    /\ UNCHANGED <<max_retries, oh_pc, empVars, att_exit, records_14>>
    /\ OtHeadFrame

\* the for loop runs out (max_retries < 1): records is None, return all_records
AttendanceLoopEnd ==
    /\ oh_pc = "attendance"
    /\ att_attempt > max_retries
    /\ AttendanceReturn("empty", all_records)
    /\ UNCHANGED <<max_retries, empVars, offset, all_records, att_attempt, att_log,
                   att_sleeps, throttles, pages, page_offsets, spent>>
    /\ OtHeadFrame

OtHeadInit ==
    /\ max_retries \in 0..MaxFetchRetries
    /\ oh_pc = "employees"
    /\ emp_attempt = 1
    /\ emp_log = <<>>
    /\ employee_dict = EmptyDict
    /\ emp_sleeps = <<>>
    /\ emp_exit = ""
    /\ offset = 0
    /\ all_records = <<>>
    /\ att_attempt = 1
    /\ att_log = <<>>
    /\ att_sleeps = <<>>
    /\ throttles = 0
    /\ pages = <<>>
    /\ att_exit = ""
    /\ records_14 = None
    /\ page_offsets = <<>>
    /\ spent = 0
    /\ SafePostOff
    /\ DownloadOff
    /\ PurchaseOff
    /\ RunOff
    /\ AggOff
    /\ SheetOff
    /\ FixOff

OtHeadNext ==
    \/ EmployeesException
    \/ EmployeesNoResult
    \/ EmployeesResult
    \/ EmployeesLoopEnd
    \/ AttendanceException
    \/ AttendanceNoResult
    \/ AttendanceEmptyPage
    \/ AttendancePage
    \/ AttendanceLoopEnd

SpecOtHead == OtHeadInit /\ [][OtHeadNext]_vars

(***************************************************************************)
(* Claims about the fetchers of ot_head.py, checked under SpecOtHead.      *)
(***************************************************************************)
RECURSIVE Concat(_)
Concat(ps) == IF ps = <<>> THEN <<>> ELSE Head(ps) \o Concat(Tail(ps))

WithoutActive(r) == [f \in DOMAIN r \ {"employee_active"} |-> r[f]]

\* list is the records of the accumulated pages, in the order received,
\* each carrying the enrichment field and otherwise unchanged
IsPagesEnriched(list) ==
    /\ Len(list) = Len(Concat(pages))
    /\ \A k \in 1..Len(list) :
        /\ "employee_active" \in DOMAIN list[k]
        /\ list[k].employee_active \in BOOLEAN
        /\ WithoutActive(list[k]) = Concat(pages)[k]

OhIs4xx(o) == ~o.exc /\ o.status_code >= 400 /\ o.status_code < 500

\* C7: the list returned at the first empty page is the concatenation, in
\* the order received, of the non-empty pages returned before it, nothing
\* dropped, duplicated or reordered, every record carrying employee_active;
\* all_records is that concatenation at every moment of the fetch.
C7_ReturnsPagesInOrder ==
    /\ IsPagesEnriched(all_records)
    /\ att_exit = "empty" => (oh_pc = "returned" /\ IsPagesEnriched(records_14))

\* pages [r1, r2], [r3], [] give [r1, r2, r3]
C7_Witness ==
    /\ oh_pc = "returned"
    /\ att_exit = "empty"
    /\ pages = << <<rec1, rec2>>, <<rec3>> >>
    /\ Len(records_14) = 3
    /\ \A k \in 1..3 : records_14[k].id = k
    /\ offset = 2000

\* C8: when a page has used up max_retries attempts without a result,
\* fetch_attendance has returned (it has not raised), and what it returned
\* is exactly what the pages before the failing one accumulated: the empty
\* list when the first page failed.
C8_ExhaustedPageReturnsPartial ==
    /\ oh_pc # "raised"
    /\ ( /\ oh_pc \in {"attendance", "returned"}
         /\ max_retries >= 1
         /\ Len(att_log) = max_retries
         /\ \A i \in 1..Len(att_log) : "result" \notin DOMAIN att_log[i][2].doc )
       => /\ oh_pc = "returned"
          /\ att_exit \in {"exception", "no_result"}
          /\ IsPagesEnriched(records_14)
          /\ (pages = <<>> => records_14 = <<>>)
          /\ offset = 1000 * Len(pages)
          /\ \A i \in 1..Len(att_log) : att_log[i][1] = offset

\* one page of two records, then two failed attempts at offset 1000
C8_Witness ==
    /\ max_retries = 2
    /\ oh_pc = "returned"
    /\ att_exit = "exception"
    /\ pages = << <<rec1, rec2>> >>
    /\ att_log = << <<1000, OhResponse(503, NotJson)>>, <<1000, OhConnectionError>> >>
    /\ Len(records_14) = 2
    /\ records_14[1].id = 1
    /\ records_14[2].id = 2

po1 == [id |-> 1, partner_id |-> Many2one(7, "Vendor A"), amount_total |-> 100]

po2 == [id |-> 2, partner_id |-> PyFalse, amount_total |-> 250]

\* the non-empty pages the remote may return to the purchase.order search_read
PoPagePool == { <<po1, po2>>, <<po2>>, <<po1>>, <<po2, po1>> }

\* limit = 1000
po_limit == 1000

\* what the loop of purchase_orders.py leaves alone
PurchaseFrame == UNCHANGED <<rpcVars, dlVars, ohVars, runVars, aggVars, sheetVars, fixVars>>

\* session.post, raise_for_status or resp.json() raises: uncaught
PurchaseRaise ==
    /\ po_pc = "fetch"
    /\ \E o \in OhFailures :
        /\ exception_raised(o) # "none"
        /\ po_log' = Append(po_log, <<po_offset, o>>)
    /\ po_pc' = "raised"
    /\ UNCHANGED <<po_offset, po_all_records>>
    /\ PurchaseFrame

\* a JSON document without "result": log the error and break
PurchaseNoResult ==
    /\ po_pc = "fetch"
    /\ \E o \in OhFailures :
        /\ exception_raised(o) = "none"
        /\ "result" \notin DOMAIN o.doc
        /\ po_log' = Append(po_log, <<po_offset, o>>)
    /\ po_pc' = "clean"
    /\ UNCHANGED <<po_offset, po_all_records>>
    /\ PurchaseFrame

\* an empty page: break
PurchaseEmptyPage ==
    /\ po_pc = "fetch"
    /\ po_log' = Append(po_log, <<po_offset, OhResponse(200, ResultDoc(<<>>))>>)
    /\ po_pc' = "clean"
    /\ UNCHANGED <<po_offset, po_all_records>>
    /\ PurchaseFrame

\* a non-empty page: extend all_records and advance the offset
PurchasePage ==
    /\ po_pc = "fetch"
    /\ Len(po_log) < MaxPages
    /\ \E records \in PoPagePool :
        /\ po_log' = Append(po_log, <<po_offset, OhResponse(200, ResultDoc(records))>>)
        /\ po_all_records' = po_all_records \o records
    /\ po_offset' = po_offset + po_limit
    /\ UNCHANGED po_pc
    /\ PurchaseFrame

PurchaseInit ==
    /\ po_pc = "fetch"
    /\ po_offset = 0
    /\ po_all_records = <<>>
    /\ po_log = <<>>
    /\ SafePostOff
    /\ DownloadOff
    /\ OtHeadOff
    /\ RunOff
    /\ AggOff
    /\ SheetOff
    /\ FixOff

PurchaseNext ==
    \/ PurchaseRaise
    \/ PurchaseNoResult
    \/ PurchaseEmptyPage
    \/ PurchasePage

SpecPurchase == PurchaseInit /\ [][PurchaseNext]_vars

(***************************************************************************)
(* Claims about the purchase.order loop, checked under SpecPurchase.       *)
(***************************************************************************)
\* a transient fault: connection error or timeout, 5xx, or malformed JSON
IsTransientFault(o) ==
    \/ o.exc
    \/ o.status_code >= 500
    \/ (o.status_code < 400 /\ o.doc = NotJson)

\* C9: a transient fault on a page request does not end the run: the same
\* page is requested again (bounded retry), or, the attempts used up, the
\* run goes on to the cleaning step with the records accumulated so far.
C9_TransientFaultRetried ==
    \A i \in 1..Len(po_log) :
        IsTransientFault(po_log[i][2]) =>
            /\ po_pc # "raised"
            /\ i < Len(po_log) => po_log[i + 1][1] = po_log[i][1]
            /\ i = Len(po_log) => po_pc \in {"fetch", "clean"}

(***************************************************************************)
(* safe_post_json: a response below 500 with a JSON body, SpecSafePost.    *)
(***************************************************************************)
\* the bodies that are well-formed JSON
IsJsonText(text) == text \in {TxtUid, TxtError}

\* a response with status in [200,499) whose body is well-formed JSON
IsClientRangeJson(o) == ~o.exc /\ o.status_code >= 200 /\ o.status_code < 499 /\ IsJsonText(o.text)

\* the document with an application-level error field
ErrorDocument == [error |-> [code |-> 100, message |-> "Odoo Session Expired"]]

\* C15: when the first response has a status in [200,499) and a well-formed
\* JSON body, safe_post_json has returned that body's document after exactly
\* one POST and without any sleep; a body carrying an error field is returned
\* as it is.
C15_GoodJsonReturnsFirstAttempt ==
    (rpc_posts # <<>> /\ IsClientRangeJson(rpc_posts[1])) =>
        /\ rpc_pc = "done"
        /\ Len(rpc_posts) = 1
        /\ rpc_sleeps = <<>>
        /\ rpc_attempt = 1
        /\ rpc_data # None
        /\ rpc_posts[1].text = TxtUid => rpc_data = [result |-> [uid |-> 7]]
        /\ rpc_posts[1].text = TxtError => rpc_data = ErrorDocument

\* a 404 whose body is the error document was returned at the first attempt
C15_Witness ==
    /\ rpc_pc = "done"
    /\ retries = 3
    /\ rpc_posts = <<Response(404, TxtError)>>
    /\ rpc_data = ErrorDocument
    /\ rpc_sleeps = <<>>

(***************************************************************************)
(* Parsed JSON documents as Python values: every value carries its type.   *)
(***************************************************************************)
AttributeError == [py |-> "AttributeError"]

PyInt(n) == [type |-> "int", items |-> <<n, "">>]

PyStr(s) == [type |-> "str", items |-> <<0, s>>]

PyTrue == [type |-> "bool", items |-> <<1, "">>]

PyDict(f) == [type |-> "dict", fields |-> f]

PyList(s) == [type |-> "list", items |-> s]

NoFields == [k \in {} |-> None]

\* isinstance(v, dict)
is_dict(v) == v # None /\ v # AttributeError /\ v.type = "dict"

\* isinstance(v, list)
is_list(v) == v # None /\ v # AttributeError /\ v.type = "list"

\* bool(v), as "if not v" evaluates it
truthy(v) ==
    CASE v = None        -> FALSE
      [] v.type = "bool" -> v # PyFalse
      [] v.type = "int"  -> v.items[1] # 0
      [] v.type = "str"  -> v.items[2] # ""
      [] v.type = "list" -> v.items # <<>>
      [] v.type = "dict" -> DOMAIN v.fields # {}

\* v.get(key, default): AttributeError when v has no method get
attr_get(v, key, default) ==
    IF is_dict(v) THEN dict_get(v.fields, key, default) ELSE AttributeError

\* {"result": {"uid": 7}}
DocUid == PyDict("result" :> PyDict("uid" :> PyInt(7)))

\* {"result": {"uid": false}}
DocNoUid == PyDict("result" :> PyDict("uid" :> PyFalse))

\* {"error": {"code": 100}}
DocError == PyDict("error" :> PyDict("code" :> PyInt(100)))

\* {"result": null}
DocResultNull == PyDict("result" :> None)

\* {"result": false}
DocResultFalse == PyDict("result" :> PyFalse)

\* {"result": []}
DocResultEmptyList == PyDict("result" :> PyList(<<>>))

\* [1]: a body that is no object
BodyList == PyList(<<PyInt(1)>>)

\* {"result": {"value": {}}}
DocDefaults == PyDict("result" :> PyDict("value" :> PyDict(NoFields)))

\* {"result": [{"id": 42}]}
DocWizardList == PyDict("result" :> PyList(<<PyDict("id" :> PyInt(42))>>))

\* {"result": {"id": 42}}
DocWizardObj == PyDict("result" :> PyDict("id" :> PyInt(42)))

\* {"result": {"report_name": "ot_xlsx"}}
DocReport == PyDict("result" :> PyDict("report_name" :> PyStr("ot_xlsx")))

\* {"result": {"report": "ot_xlsx"}}
DocReportAlt == PyDict("result" :> PyDict("report" :> PyStr("ot_xlsx")))

\* {"result": {"type": "ir.actions.act_window_close"}}
DocActionNoName == PyDict("result" :> PyDict("type" :> PyStr("ir.actions.act_window_close")))

\* what safe_post_json may return to the login step
LoginReturns == { None, DocUid, DocError, DocNoUid, DocResultNull, BodyList }

\* what safe_post_json may return to the onchange step
OnchangeReturns == { None, DocDefaults, DocError, DocResultFalse }

\* what safe_post_json may return to the web_save step
WebSaveReturns == { None, DocWizardList, DocWizardObj, DocResultEmptyList, DocError, BodyList }

\* what safe_post_json may return to the call_button step
CallButtonReturns == { None, DocReport, DocReportAlt, DocError, DocResultFalse, DocActionNoName }

\* what download_report_with_retries may return
DownloadReturns ==
    { None,
      DownloadResponse(200, {<<"content-type", CtXlsx>>}, BytesXlsx),
      DownloadResponse(200, {<<"content-type", CtHtml>>}, BytesHtml),
      DownloadResponse(500, {}, BytesHtml) }

\* how the try block of step 7 ends
UploadOutcomes == { "ok", "read_excel raises", "gspread raises" }

\* what the remote may answer to session.get(ODOO_URL/web)
CsrfOutcomes == { "raises", "token", "no token" }

\* what the remote may answer to the authenticate POST of ot_head.py and
\* purchase_orders.py
AuthOutcomes ==
    { OhConnectionError,
      OhResponse(401, NotJson),
      OhResponse(200, NotJson),
      OhResponse(200, DocUid),
      OhResponse(200, DocError),
      OhResponse(200, DocNoUid),
      OhResponse(200, DocResultNull),
      OhResponse(200, BodyList) }

\* COMPANY_IDS = [1, 3]
COMPANY_IDS == <<1, 3>>

\* company_id of the iteration being run
company_id == COMPANY_IDS[company_idx]

\* uid = login_result.get("result", {}).get("uid")
uid_of(result) == attr_get(attr_get(result, "result", PyDict(NoFields)), "uid", None)

\* wizard_id, as extracted from result_obj = web_save_data.get("result")
wizard_id_of(data) ==
    LET result_obj == attr_get(data, "result", None)
    IN  CASE result_obj = AttributeError -> AttributeError
          [] is_list(result_obj) /\ Len(result_obj.items) > 0 /\ is_dict(result_obj.items[1])
                -> attr_get(result_obj.items[1], "id", None)
          [] is_dict(result_obj) -> attr_get(result_obj, "id", None)
          [] OTHER -> None

\* report_name = report_info.get("report_name") or report_info.get("report")
report_name_of(data) ==
    LET report_info == attr_get(data, "result", PyDict(NoFields))
        first == attr_get(report_info, "report_name", None)
    IN  CASE first = AttributeError -> AttributeError
          [] truthy(first) -> first
          [] OTHER -> attr_get(report_info, "report", None)

download_accepted_not_none(r) == r # None

\* the condition of line 383; bool(resp) is resp.ok
download_accepted(r) ==
    /\ r # None
    /\ r.status_code < 400
    /\ r.status_code = 200
    /\ \/ contains(XlsxMime, lower(headers_get(r.headers, "content-type", <<>>)))
       \/ startswith(r.content, PK)

next_unit_break(idx) == [idx |-> idx, pc |-> "done"]

next_unit_relogin(idx) == [idx |-> idx, pc |-> "login"]

\* continue, or the end of the loop body: the for loop takes the next company
next_unit(idx) ==
    IF idx < Len(COMPANY_IDS)
    THEN [idx |-> idx + 1, pc |-> "onchange"]
    ELSE [idx |-> idx, pc |-> "done"]

(***************************************************************************)
(* The top-level statements of the three scripts, from the login on.  A    *)
(* call of safe_post_json or download_report_with_retries is one step: it  *)
(* draws what the function returns.                                        *)
(***************************************************************************)
\* what the top-level statements leave alone
RunFrame == UNCHANGED <<rpcVars, dlVars, ohVars, poVars, aggVars, sheetVars, fixVars>>

reportLocals == <<onchange_data, web_save_data, wizard_id, call_button_data, report_name,
                  report_resp>>

\* an exception nobody catches ends the process
RunCrash(kind) ==
    /\ run_pc' = "exit"
    /\ run_crash' = kind

\* the loop body of company_id is left: by continue or at its end
EndUnit(reason) ==
    /\ unit_exit' = [unit_exit EXCEPT ![company_idx] = reason]
    /\ company_idx' = next_unit(company_idx).idx
    /\ run_pc' = next_unit(company_idx).pc
    /\ UNCHANGED run_crash

\* a request (or the requests of one retrying call) goes out
Request(kind, company, ident) == requests' = Append(requests, <<kind, company, ident>>)

\* Ot_data_fetch.py, step 1: login
ReportLogin ==
    /\ run_script = "Ot_data_fetch"
    /\ run_pc = "login"
    /\ \E r \in LoginReturns :
        /\ login_result' = r
        /\ Request("authenticate", 0, None)
        /\ IF ~truthy(r)
           THEN RunCrash("SystemExit") /\ UNCHANGED uid
           ELSE IF uid_of(r) = AttributeError
           THEN RunCrash("AttributeError") /\ UNCHANGED uid
           ELSE /\ uid' = uid_of(r)
                /\ run_pc' = "csrf"
                /\ UNCHANGED run_crash
    /\ UNCHANGED <<run_script, auth_result, csrf_token, company_idx, reportLocals, unit_exit>>
    /\ RunFrame

\* Ot_data_fetch.py, step 2: GET /web and search the CSRF token
ReportCsrf ==
    /\ run_script = "Ot_data_fetch"
    /\ run_pc = "csrf"
    /\ \E o \in CsrfOutcomes :
        /\ Request("csrf", 0, None)
        /\ IF o = "raises"
           THEN RunCrash("RequestException") /\ UNCHANGED <<csrf_token, company_idx>>
           ELSE /\ csrf_token' = IF o = "token" THEN PyStr("token") ELSE None
                /\ company_idx' = 1
                /\ run_pc' = "onchange"
                /\ UNCHANGED run_crash
    /\ UNCHANGED <<run_script, auth_result, login_result, uid, reportLocals, unit_exit>>
    /\ RunFrame

\* step 3: onchange
ReportOnchange ==
    /\ run_script = "Ot_data_fetch"
    /\ run_pc = "onchange"
    /\ \E r \in OnchangeReturns :
        /\ onchange_data' = r
        /\ Request("onchange", company_id, None)
        /\ IF ~truthy(r)
           THEN EndUnit("onchange failed")
           ELSE IF attr_get(attr_get(r, "result", PyDict(NoFields)), "value", PyDict(NoFields))
                       = AttributeError
           THEN RunCrash("AttributeError") /\ UNCHANGED <<company_idx, unit_exit>>
           ELSE /\ run_pc' = "web_save"
                /\ UNCHANGED <<run_crash, company_idx, unit_exit>>
    /\ UNCHANGED <<run_script, auth_result, login_result, uid, csrf_token, web_save_data,
                   wizard_id, call_button_data, report_name, report_resp>>
    /\ RunFrame

\* step 4: web_save and the extraction of wizard_id
ReportWebSave ==
    /\ run_script = "Ot_data_fetch"
    /\ run_pc = "web_save"
    /\ \E r \in WebSaveReturns :
        /\ web_save_data' = r
        /\ Request("web_save", company_id, None)
        /\ IF ~truthy(r)
           THEN EndUnit("web_save failed") /\ UNCHANGED wizard_id
           ELSE IF wizard_id_of(r) = AttributeError
           THEN RunCrash("AttributeError") /\ UNCHANGED <<wizard_id, company_idx, unit_exit>>
           ELSE /\ wizard_id' = wizard_id_of(r)
                /\ IF ~truthy(wizard_id_of(r))
                   THEN EndUnit("no wizard_id")
                   ELSE /\ run_pc' = "call_button"
                        /\ UNCHANGED <<run_crash, company_idx, unit_exit>>
    /\ UNCHANGED <<run_script, auth_result, login_result, uid, csrf_token, onchange_data,
                   call_button_data, report_name, report_resp>>
    /\ RunFrame

\* step 5: call_button and the extraction of report_name
ReportCallButton ==
    /\ run_script = "Ot_data_fetch"
    /\ run_pc = "call_button"
    /\ \E r \in CallButtonReturns :
        /\ call_button_data' = r
        /\ Request("call_button", company_id, wizard_id)
        /\ IF ~truthy(r)
           THEN EndUnit("call_button failed") /\ UNCHANGED report_name
           ELSE IF report_name_of(r) = AttributeError
           THEN RunCrash("AttributeError") /\ UNCHANGED <<report_name, company_idx, unit_exit>>
           ELSE /\ report_name' = report_name_of(r)
                /\ run_pc' = "download"
                /\ UNCHANGED <<run_crash, company_idx, unit_exit>>
    /\ UNCHANGED <<run_script, auth_result, login_result, uid, csrf_token, onchange_data,
                   web_save_data, wizard_id, report_resp>>
    /\ RunFrame

\* step 6: download the report and test what came back
ReportDownload ==
    /\ run_script = "Ot_data_fetch"
    /\ run_pc = "download"
    /\ \E r \in DownloadReturns :
        /\ report_resp' = r
        /\ Request("download", company_id, report_name)
        /\ IF download_accepted(r)
           THEN /\ run_pc' = "upload"
                /\ UNCHANGED <<run_crash, company_idx, unit_exit>>
           ELSE EndUnit("download failed")
    /\ UNCHANGED <<run_script, auth_result, login_result, uid, csrf_token, onchange_data,
                   web_save_data, wizard_id, call_button_data, report_name>>
    /\ RunFrame

\* step 7: read the file and push it to the sheet, inside try/except Exception
ReportUpload ==
    /\ run_script = "Ot_data_fetch"
    /\ run_pc = "upload"
    /\ \E o \in UploadOutcomes :
        CASE o = "read_excel raises" ->
                /\ EndUnit("parse failed")
                /\ UNCHANGED requests
          [] o = "gspread raises" ->
                /\ EndUnit("upload failed")
                /\ Request("sheets", company_id, None)
          [] OTHER ->
                /\ EndUnit("uploaded")
                /\ Request("sheets", company_id, None)
    /\ UNCHANGED <<run_script, auth_result, login_result, uid, csrf_token, reportLocals>>
    /\ RunFrame

\* ot_head.py and purchase_orders.py, step 1: authenticate
Authenticate ==
    /\ run_pc = "auth"
    /\ \E o \in AuthOutcomes :
        /\ Request("authenticate", 0, None)
        /\ IF exception_raised(o) # "none"
           THEN RunCrash(exception_raised(o)) /\ UNCHANGED <<auth_result, uid>>
           ELSE /\ auth_result' = o.doc
                /\ LET result == attr_get(o.doc, "result", None)
                       uid_value == attr_get(result, "uid", None)
                   IN  CASE result = AttributeError ->
                                RunCrash("AttributeError") /\ UNCHANGED uid
                         [] ~truthy(result) ->
                                RunCrash("Exception") /\ UNCHANGED uid
                         [] uid_value = AttributeError ->
                                RunCrash("AttributeError") /\ UNCHANGED uid
                         [] ~truthy(uid_value) ->
                                RunCrash("Exception") /\ UNCHANGED uid
                         [] OTHER ->
                                /\ uid' = uid_value
                                /\ run_pc' = "search_read"
                                /\ UNCHANGED run_crash
    /\ UNCHANGED <<run_script, login_result, csrf_token, company_idx, reportLocals, unit_exit>>
    /\ RunFrame

\* src/ot_head.py, lines 53-61
OtHeadAuthenticate ==
    /\ run_script = "ot_head"
    /\ Authenticate

\* src/purchase_orders.py, lines 66-74
PurchaseAuthenticate ==
    /\ run_script = "purchase_orders"
    /\ Authenticate

\* the first search_read after the login: hr.employee in ot_head.py,
\* purchase.order in purchase_orders.py
FirstSearchRead ==
    /\ run_script \in {"ot_head", "purchase_orders"}
    /\ run_pc = "search_read"
    /\ Request("search_read", 0, uid)
    /\ run_pc' = "fetching"
    /\ UNCHANGED <<run_script, run_crash, auth_result, login_result, uid, csrf_token,
                   company_idx, reportLocals, unit_exit>>
    /\ RunFrame

\* a later search_read of the fetch loops: a retry of a failed page, the
\* next page, or hr.attendance after hr.employee
LaterSearchRead ==
    /\ run_script \in {"ot_head", "purchase_orders"}
    /\ run_pc = "fetching"
    /\ Len(requests) < 2 + MaxPages
    /\ Request("search_read", 0, uid)
    /\ UNCHANGED <<run_script, run_pc, run_crash, auth_result, login_result, uid, csrf_token,
                   company_idx, reportLocals, unit_exit>>
    /\ RunFrame

RunInit ==
    /\ run_script \in {"Ot_data_fetch", "ot_head", "purchase_orders"}
    /\ run_pc = IF run_script = "Ot_data_fetch" THEN "login" ELSE "auth"
    /\ run_crash = "none"
    /\ auth_result = None
    /\ login_result = None
    /\ uid = None
    /\ csrf_token = None
    /\ company_idx = 0
    /\ onchange_data = None
    /\ web_save_data = None
    /\ wizard_id = None
    /\ call_button_data = None
    /\ report_name = None
    /\ report_resp = None
    /\ requests = <<>>
    /\ unit_exit = <<"", "">>
    /\ SafePostOff
    /\ DownloadOff
    /\ OtHeadOff
    /\ PurchaseOff
    /\ AggOff
    /\ SheetOff
    /\ FixOff

RunNext ==
    \/ ReportLogin
    \/ ReportCsrf
    \/ ReportOnchange
    \/ ReportWebSave
    \/ ReportCallButton
    \/ ReportDownload
    \/ ReportUpload
    \/ OtHeadAuthenticate
    \/ PurchaseAuthenticate
    \/ FirstSearchRead
    \/ LaterSearchRead

SpecRun == RunInit /\ [][RunNext]_vars

(***************************************************************************)
(* Claims about the top-level statements, checked under SpecRun.           *)
(***************************************************************************)
\* the kinds of request made so far
RequestKinds == { requests[i][1] : i \in 1..Len(requests) }

\* the login step has run and left no user id
LoginWithoutUid == requests # <<>> /\ ~truthy(uid)

\* C11: when authentication yields no user id the process stops and no
\* request other than the authentication itself is ever made.
C11_LoginFailureIsFatal ==
    LoginWithoutUid =>
        /\ run_pc = "exit"
        /\ RequestKinds = {"authenticate"}

\* the ways the loop body of one company is left after a failure
UnitFailures ==
    { "onchange failed", "web_save failed", "no wizard_id", "call_button failed",
      "download failed", "parse failed", "upload failed" }

\* the onchange step of company 3 is the next statement, or has been run
OnchangeStartedForSecond ==
    /\ company_idx = 2
    /\ \/ run_pc = "onchange"
       \/ \E i \in 1..Len(requests) : requests[i] = <<"onchange", COMPANY_IDS[2], None>>

\* C12: once the loop body of company 1 was left by a failed RPC, a missing
\* wizard id, a failed download, a failed parse or a failed upload, the loop
\* is at (or past) the onchange step of company 3.
C12_FailedCompanyDoesNotStopLoop ==
    (run_script = "Ot_data_fetch" /\ unit_exit[1] \in UnitFailures) => OnchangeStartedForSecond

\* company 1 failed at the upload and the onchange of company 3 was sent
C12_Witness ==
    /\ unit_exit[1] = "upload failed"
    /\ \E i \in 1..Len(requests) : requests[i] = <<"onchange", 3, None>>

\* C13: no call_button request is sent without a wizard id and no download
\* request is sent without a report name: the company is skipped instead.
C13_MissingIdentifierSkipsUnit ==
    \A i \in 1..Len(requests) :
        requests[i][1] \in {"call_button", "download"} => truthy(requests[i][3])

\* C14: no response of unexpected shape ends the process with an uncaught
\* exception.
C14_ShapeFaultNeverCrashes == run_crash # "AttributeError"

(***************************************************************************)
(* Normalisation (clean_value) and aggregation (groupby / sum).            *)
(*                                                                         *)
(* A record is a function from field names to Python values; the records  *)
(* of ot_head.py are those fetch_attendance returned, employee_active      *)
(* included.                                                               *)
(***************************************************************************)
\* most records in one fetched collection
MaxRecords == 3

TypeError == [py |-> "TypeError"]

\* pandas.NaT
NaT == [py |-> "NaT"]

Alice == Many2one(1, "Alice")

Bob == Many2one(2, "Bob")

Sewing == Many2one(5, "Sewing")

\* one hr.attendance record after the enrichment of fetch_attendance
Att(date, emp, dept, cat, ot, worked, active) ==
    [attDate |-> date, employee_id |-> emp, department_id |-> dept, x_studio_category |-> cat,
     com_otHours |-> ot, worked_hours |-> worked, employee_active |-> active]

\* the records the remote may hold
AttendancePool ==
    { Att(PyStr("2024-04-03"), Alice, Sewing, PyStr("Worker"), PyInt(2), PyInt(8), PyTrue),
      Att(PyStr("2024-04-20"), Alice, Sewing, PyStr("Worker"), PyInt(1), PyInt(9), PyTrue),
      Att(PyStr("2024-05-01"), Alice, Sewing, PyStr("Worker"), PyInt(0), PyInt(8), PyTrue),
      Att(PyStr("2024-04-03"), Bob, PyFalse, PyStr("Staff"), PyInt(3), PyInt(7), PyFalse),
      Att(PyFalse, Alice, Sewing, PyStr("Worker"), PyInt(2), PyInt(8), PyTrue),
      Att(PyStr("2024-04-20"), Alice, Sewing, PyStr("Worker"), PyFalse, PyInt(8), PyTrue),
      Att(PyStr("2024-04-03"), Bob, PyFalse, PyFalse, PyFalse, PyFalse, PyFalse) }

\* one purchase.order record
Po(partner, origin, priority, total) ==
    [partner_id |-> partner, origin |-> origin, priority |-> priority, amount_total |-> total]

PurchasePool ==
    { Po(Many2one(7, "Vendor A"), PyFalse, PyStr("0"), PyInt(100)),
      Po(PyFalse, PyStr("SO1"), PyStr(""), PyInt(0)),
      Po(Many2one(8, "Vendor B"), None, PyStr("1"), PyInt(250)) }

\* the collections of at most MaxRecords records of a pool
Collections(pool) == UNION { [1..n -> pool] : n \in 0..MaxRecords }

clean_value_pair_to_false(val) ==
    IF is_list(val) /\ Len(val.items) = 2
    THEN PyFalse
    ELSE IF val = None \/ val = PyFalse THEN PyStr("") ELSE val

clean_value_loose_false(val) ==
    IF is_list(val) /\ Len(val.items) = 2
    THEN PyStr(val.items[2])
    ELSE IF val = None \/ val = PyFalse \/ val = PyInt(0) THEN PyStr("") ELSE val

\* clean_value(val): val[1] of a two-element list, "" for None and False
clean_value(val) ==
    IF is_list(val) /\ Len(val.items) = 2
    THEN PyStr(val.items[2])
    ELSE IF val = None \/ val = PyFalse THEN PyStr("") ELSE val

\* the fields the cleaning loop of a script skips
protected_fields(script) == IF script = "ot_head" THEN {"employee_active"} ELSE {}

\* for key in rec.keys(): rec[key] = clean_value(rec[key]), skipped keys aside
cleaned(rec, skip) ==
    [key \in DOMAIN rec |-> IF key \in skip THEN rec[key] ELSE clean_value(rec[key])]

\* FIELDS, with the entry line 256 adds
FIELDS ==
    [attDate |-> "Date", employee_id |-> "Employee", department_id |-> "Department",
     com_otHours |-> "OT Hours ", worked_hours |-> "Worked Hours",
     x_studio_category |-> "Category", employee_active |-> "Employee/Active"]

\* one row of the frame after df.rename(columns=FIELDS)
renamed(rec) ==
    [col \in { FIELDS[key] : key \in DOMAIN rec } |->
        rec[CHOOSE key \in DOMAIN rec : FIELDS[key] = col]]

\* pd.to_datetime of one cell: the empty string parses to NaT
to_datetime(v) ==
    CASE v = PyStr("2024-04-03") -> [year |-> 2024, month |-> 4, day |-> 3]
      [] v = PyStr("2024-04-20") -> [year |-> 2024, month |-> 4, day |-> 20]
      [] v = PyStr("2024-05-01") -> [year |-> 2024, month |-> 5, day |-> 1]
      [] OTHER                   -> NaT

month_start_same_day(d) == d

\* .dt.to_period('M').dt.to_timestamp(): the first day of the month
month_start(d) == IF d = NaT THEN NaT ELSE [d EXCEPT !.day = 1]

\* the row after the two assignments to df['Date']
standardized(row) == [row EXCEPT !["Date"] = month_start(to_datetime(row["Date"]))]

\* group_cols
group_cols == <<"Date", "Employee", "Department", "Category", "Employee/Active">>

\* the measures summed
measure_cols == {"OT Hours ", "Worked Hours"}

\* the key of a row: its values in the group_cols columns
group_key(row) == [i \in 1..Len(group_cols) |-> row[group_cols[i]]]

\* pandas.isna of one cell
isna(v) == v = NaT \/ v = None

\* groupby(..., dropna=True), the default: a row with a missing key is in no group
in_some_group(row) == \A i \in 1..Len(group_cols) : ~isna(row[group_cols[i]])

\* a + b of two Python objects
py_add(a, b) ==
    CASE a = TypeError \/ b = TypeError          -> TypeError
      [] a.type = "int" /\ b.type = "int"        -> PyInt(a.items[1] + b.items[1])
      [] a.type = "str" /\ b.type = "str"        -> PyStr(a.items[2] \o b.items[2])
      [] OTHER                                   -> TypeError

RECURSIVE object_sum(_, _)
\* the sum of a group: the first value, then + for each further value
object_sum(acc, vals) ==
    IF vals = <<>> THEN acc ELSE object_sum(py_add(acc, Head(vals)), Tail(vals))

\* .agg({col: 'sum'}) for one group
group_sum(vals) == object_sum(Head(vals), Tail(vals))

\* the cells of one column, in row order
column_of(rows, col) == [i \in 1..Len(rows) |-> rows[i][col]]

\* df.groupby(group_cols, as_index=False).agg({'OT Hours ': 'sum', 'Worked Hours': 'sum'}):
\* the summed measures of each group, unless a sum raises TypeError
groupby_sum(rows) ==
    LET kept == SelectSeq(rows, in_some_group)
        keys == { group_key(kept[i]) : i \in 1..Len(kept) }
        rows_of(k) == SelectSeq(kept, LAMBDA row : group_key(row) = k)
        sums == [k \in keys |->
                    [col \in measure_cols |-> group_sum(column_of(rows_of(k), col))]]
    IN  [raises |-> \E k \in keys : \E col \in measure_cols : sums[k][col] = TypeError,
         frame  |-> sums]

\* the empty frame pd.DataFrame()
EmptyFrame == [k \in {} |-> None]

\* what normalisation and aggregation leave alone
AggFrame == UNCHANGED <<rpcVars, dlVars, ohVars, poVars, runVars, sheetVars, fixVars>>

\* ot_head.py: the cleaning loop over the fetched records
OtHeadClean ==
    /\ agg_script = "ot_head"
    /\ agg_pc = "clean"
    /\ agg_records' = [i \in 1..Len(agg_records) |->
                          cleaned(agg_records[i], protected_fields("ot_head"))]
    /\ agg_pc' = "group"
    /\ UNCHANGED <<agg_script, agg_input, grouped, agg_crash>>
    /\ AggFrame

\* purchase_orders.py: the cleaning loop over all_records
PurchaseClean ==
    /\ agg_script = "purchase_orders"
    /\ agg_pc = "clean"
    /\ agg_records' = [i \in 1..Len(agg_records) |->
                          cleaned(agg_records[i], protected_fields("purchase_orders"))]
    /\ agg_pc' = "frame"
    /\ UNCHANGED <<agg_script, agg_input, grouped, agg_crash>>
    /\ AggFrame

\* ot_head.py: the frame is empty and the grouping is skipped
OtHeadGroupEmpty ==
    /\ agg_script = "ot_head"
    /\ agg_pc = "group"
    /\ agg_records = <<>>
    /\ grouped' = EmptyFrame
    /\ agg_pc' = "paste"
    /\ UNCHANGED <<agg_script, agg_input, agg_records, agg_crash>>
    /\ AggFrame

\* ot_head.py: rename, standardise the dates, group and sum
OtHeadGroup ==
    /\ agg_script = "ot_head"
    /\ agg_pc = "group"
    /\ agg_records # <<>>
    /\ LET df == [i \in 1..Len(agg_records) |-> standardized(renamed(agg_records[i]))]
       IN  IF groupby_sum(df).raises
           THEN /\ agg_crash' = "TypeError"
                /\ agg_pc' = "exit"
                /\ UNCHANGED grouped
           ELSE /\ grouped' = groupby_sum(df).frame
                /\ agg_pc' = "paste"
                /\ UNCHANGED agg_crash
    /\ UNCHANGED <<agg_script, agg_input, agg_records>>
    /\ AggFrame

AggInit ==
    /\ agg_script \in {"ot_head", "purchase_orders"}
    /\ agg_pc = "clean"
    /\ agg_input \in Collections(IF agg_script = "ot_head" THEN AttendancePool ELSE PurchasePool)
    /\ agg_records = agg_input
    /\ grouped = None
    /\ agg_crash = "none"
    /\ SafePostOff
    /\ DownloadOff
    /\ OtHeadOff
    /\ PurchaseOff
    /\ RunOff
    /\ SheetOff
    /\ FixOff

AggNext ==
    \/ OtHeadClean
    \/ PurchaseClean
    \/ OtHeadGroupEmpty
    \/ OtHeadGroup

SpecAggregate == AggInit /\ [][AggNext]_vars

(***************************************************************************)
(* Claims about normalisation and aggregation, checked under SpecAggregate.*)
(***************************************************************************)
\* grouped_14 has been computed
AggregationDone == agg_script = "ot_head" /\ agg_pc = "paste"

\* the date of the i-th normalized record, parsed
ParsedDate(i) == to_datetime(agg_records[i].attDate)

\* the i-th record has the group key k: the first day of the month of its
\* date, its employee, department, category and active flag
HasKey(i, k) ==
    /\ ParsedDate(i) # NaT
    /\ k[1] = [year |-> ParsedDate(i).year, month |-> ParsedDate(i).month, day |-> 1]
    /\ k[2] = agg_records[i].employee_id
    /\ k[3] = agg_records[i].department_id
    /\ k[4] = agg_records[i].x_studio_category
    /\ k[5] = agg_records[i].employee_active

\* the records that contribute to the group of key k
Contributors(k) == { i \in 1..Len(agg_records) : HasKey(i, k) }

\* the field a measure column is made of
MeasureField(col) == CHOOSE key \in DOMAIN FIELDS : FIELDS[key] = col

\* a number, and what a normalized measure counts for (the empty string: 0)
IsNumber(v) == v # None /\ v.type = "int"

MeasureOrZero(v) == IF IsNumber(v) THEN v.items[1] ELSE 0

RECURSIVE ArithmeticSum(_, _, _)
\* the arithmetic sum of a measure over the contributors of k among the
\* first n records
ArithmeticSum(n, k, col) ==
    IF n = 0 THEN 0
    ELSE ArithmeticSum(n - 1, k, col)
         + (IF HasKey(n, k) THEN MeasureOrZero(agg_records[n][MeasureField(col)]) ELSE 0)

\* C16: every normalized record, one whose date or dimension was absent
\* included, is in exactly one output group.
C16_EveryRecordInOneGroup ==
    AggregationDone =>
        \A i \in 1..Len(agg_records) :
            Cardinality({ k \in DOMAIN grouped : HasKey(i, k) }) = 1

\* the records i and j are of one calendar month and differ in no grouping
\* dimension: their keys differ in the day at most
SameMonthOtherwiseEqual(i, j) ==
    /\ ParsedDate(i) # NaT
    /\ ParsedDate(j) # NaT
    /\ ParsedDate(i).year = ParsedDate(j).year
    /\ ParsedDate(i).month = ParsedDate(j).month
    /\ \A key \in {"employee_id", "department_id", "x_studio_category", "employee_active"} :
        agg_records[i][key] = agg_records[j][key]

\* C17: every group is dated the first day of a month, has contributors,
\* and each measure whose contributing values are numbers is their
\* arithmetic sum; two records differing only in the day of one month are
\* in one group.
C17_GroupSumsAndMonthCollapse ==
    AggregationDone =>
        /\ \A k \in DOMAIN grouped :
            /\ k[1] # NaT
            /\ k[1].day = 1
            /\ Contributors(k) # {}
            /\ \A col \in measure_cols :
                (\A i \in Contributors(k) : IsNumber(agg_records[i][MeasureField(col)]))
                => grouped[k][col] = PyInt(ArithmeticSum(Len(agg_records), k, col))
        /\ \A i, j \in 1..Len(agg_records) :
            SameMonthOtherwiseEqual(i, j)
            => \E k \in DOMAIN grouped : HasKey(i, k) /\ HasKey(j, k)

\* the records of 3 April and 20 April of one employee were summed in the
\* group of 1 April
C17_Witness ==
    /\ AggregationDone
    /\ \E i, j \in 1..Len(agg_records) :
        /\ SameMonthOtherwiseEqual(i, j)
        /\ ParsedDate(i).day # ParsedDate(j).day
    /\ \E k \in DOMAIN grouped :
        /\ k[1] = [year |-> 2024, month |-> 4, day |-> 1]
        /\ Cardinality(Contributors(k)) = 2
        /\ grouped[k]["OT Hours "] = PyInt(3)
        /\ grouped[k]["Worked Hours"] = PyInt(17)

\* C18: the aggregation never fails, and every summed measure is a number:
\* the arithmetic sum in which a missing value counts 0.
C18_MissingMeasureIsZero ==
    (agg_script = "ot_head" /\ agg_pc \in {"paste", "exit"}) =>
        /\ agg_crash = "none"
        /\ \A k \in DOMAIN grouped : \A col \in measure_cols :
            grouped[k][col] = PyInt(ArithmeticSum(Len(agg_records), k, col))

\* C19: normalizing the normalized records again changes nothing.
C19_NormalizationIdempotent ==
    (agg_script # "" /\ agg_pc # "clean") =>
        \A i \in 1..Len(agg_records) :
            cleaned(agg_records[i], protected_fields(agg_script)) = agg_records[i]

\* purchase orders with a vendor pair and a false field were normalized
C19_Witness ==
    /\ agg_script = "purchase_orders"
    /\ agg_pc = "frame"
    /\ Len(agg_records) = 2
    /\ agg_input[1].partner_id = Many2one(7, "Vendor A")
    /\ agg_records[1].partner_id = PyStr("Vendor A")
    /\ agg_input[2].partner_id = PyFalse
    /\ agg_records[2].partner_id = PyStr("")

\* an (id, label) pair
IsPair(v) == v # None /\ v.type = "list" /\ Len(v.items) = 2

\* C20: after normalization a protected field has its fetched value; any
\* other field holds the label of its pair, the empty string for false or
\* None, and its fetched value otherwise.
C20_NormalizedFields ==
    (agg_script # "" /\ agg_pc # "clean") =>
        /\ Len(agg_records) = Len(agg_input)
        /\ \A i \in 1..Len(agg_input) :
            /\ DOMAIN agg_records[i] = DOMAIN agg_input[i]
            /\ \A key \in DOMAIN agg_input[i] :
                LET before == agg_input[i][key]
                    after == agg_records[i][key]
                IN  CASE key = "employee_active" /\ agg_script = "ot_head" -> after = before
                      [] IsPair(before) -> after = PyStr(before.items[2])
                      [] before = PyFalse \/ before = None -> after = PyStr("")
                      [] OTHER -> after = before

\* an inactive employee's record: the flag is still false, the absent
\* department is empty, the employee is its label; a zero measure is kept
C20_Witness ==
    /\ agg_script = "ot_head"
    /\ agg_pc = "group"
    /\ \E i, j \in 1..Len(agg_records) :
        /\ agg_input[i].employee_active = PyFalse
        /\ agg_records[i].employee_active = PyFalse
        /\ agg_input[i].department_id = PyFalse
        /\ agg_records[i].department_id = PyStr("")
        /\ agg_records[i].employee_id = PyStr("Bob")
        /\ agg_input[j].com_otHours = PyInt(0)
        /\ agg_records[j].com_otHours = PyInt(0)

(***************************************************************************)
(* fetch_attendance: the enrichment of the records, SpecOtHead.            *)
(***************************************************************************)
\* the id of the employee a record refers to is a key of the mapping
EmployeeKnown(r) ==
    /\ r.employee_id.type = "list"
    /\ Len(r.employee_id.items) = 2
    /\ r.employee_id.items[1] \in DOMAIN employee_dict

\* the flag a record must carry: the mapping's value for a known employee,
\* true for an unknown one and for an absent reference
ExpectedActive(r) == IF EmployeeKnown(r) THEN employee_dict[r.employee_id.items[1]] ELSE TRUE

\* C21: every accumulated record carries as employee_active the value the
\* employee mapping holds for the id of its employee_id reference, and true
\* when the id is not a key of the mapping: when the reference is absent
\* and when fetch_all_employees failed and returned the empty mapping.
C21_EnrichmentFromMapping ==
    /\ \A k \in 1..Len(all_records) :
        all_records[k].employee_active = ExpectedActive(all_records[k])
    /\ emp_exit \in {"exhausted", "loop_end"} =>
        /\ employee_dict = EmptyDict
        /\ \A k \in 1..Len(all_records) : all_records[k].employee_active = TRUE
    /\ oh_pc = "returned" =>
        \A k \in 1..Len(records_14) :
            records_14[k].employee_active = ExpectedActive(records_14[k])

\* employee 1 is inactive in the mapping: its record is flagged false, the
\* record of the unknown employee 2 and the record without employee true
C21_Witness ==
    /\ oh_pc = "returned"
    /\ emp_exit = "result"
    /\ DOMAIN employee_dict = {1}
    /\ employee_dict[1] = FALSE
    /\ Len(records_14) = 3
    /\ records_14[1].employee_id = Many2one(1, "Alice")
    /\ records_14[1].employee_active = FALSE
    /\ records_14[2].employee_id = Many2one(2, "Bob")
    /\ records_14[2].employee_active = TRUE
    /\ records_14[3].employee_id = PyFalse
    /\ records_14[3].employee_active = TRUE


(***************************************************************************)
(* The two paginated fetchers together: fetch_attendance of ot_head.py and *)
(* the while loop of purchase_orders.py.                                   *)
(***************************************************************************)
SpecPaginated == (OtHeadInit \/ PurchaseInit) /\ [][OtHeadNext \/ PurchaseNext]_vars

\* the request carried a non-empty page
IsNonEmptyPage(o) ==
    /\ exception_raised(o) = "none"
    /\ "result" \in DOMAIN o.doc
    /\ o.doc.result # <<>>

\* the number of non-empty pages among the first n requests of log
RECURSIVE PagesBefore(_, _)
PagesBefore(log, n) ==
    IF n = 0 THEN 0
    ELSE PagesBefore(log, n - 1) + (IF IsNonEmptyPage(log[n][2]) THEN 1 ELSE 0)

\* C22: both fetchers request the offsets 0, L, 2L, ... in order: the offset
\* of a request is L times the number of non-empty pages accumulated so far,
\* a retry of a failed page carries the same offset again, and no offset is
\* requested again once a page for it was accumulated.
C22_OffsetsInOrder ==
    /\ offset = limit * Len(pages)
    /\ Len(page_offsets) = Len(pages)
    /\ \A i \in 1..Len(page_offsets) : page_offsets[i] = limit * (i - 1)
    /\ \A k \in 1..Len(att_log) :
        /\ att_log[k][1] = limit * Len(pages)
        /\ \A i \in 1..Len(page_offsets) : att_log[k][1] # page_offsets[i]
    /\ \A k \in 1..Len(po_log) :
        /\ po_log[k][1] = po_limit * PagesBefore(po_log, k - 1)
        /\ \A i \in 1..(k - 1) :
            IsNonEmptyPage(po_log[i][2]) => po_log[k][1] # po_log[i][1]
    /\ po_offset = po_limit * PagesBefore(po_log, Len(po_log))

\* two pages were accumulated, the second after a retry, and the third
\* offset is being retried
C22_Witness ==
    /\ oh_pc = "attendance"
    /\ page_offsets = <<0, limit>>
    /\ spent >= 1
    /\ Len(att_log) >= 2
    /\ att_log[1][1] = 2 * limit
    /\ att_log[2][1] = 2 * limit


(***************************************************************************)
(* The authentication request in the order of the requests, SpecRun.       *)
(***************************************************************************)
IsAuthenticate(k) == requests[k][1] = "authenticate"

\* C23: in each script the authenticate endpoint is called only before the
\* first request of another kind and never after one, whatever the later
\* requests return.
C23_AuthenticateOnlyFirst ==
    \A j \in 1..Len(requests) :
        IsAuthenticate(j) => \A i \in 1..(j - 1) : IsAuthenticate(i)

\* the report run went on to the second company after the first one's
\* download failed, without a second login
C23_Witness ==
    /\ run_script = "Ot_data_fetch"
    /\ unit_exit[1] = "download failed"
    /\ IsAuthenticate(1)
    /\ \A k \in 2..Len(requests) : ~IsAuthenticate(k)
    /\ \E k \in 1..Len(requests) :
        requests[k][1] = "onchange" /\ requests[k][2] = COMPANY_IDS[2]


(***************************************************************************)
(* The writes to the destination worksheet.  ot_head.py writes through     *)
(* paste_to_sheet_with_retry, purchase_orders.py in its step 7 without a   *)
(* try, Ot_data_fetch.py in step 7 of a company, inside try/except         *)
(* Exception.  A worksheet call either succeeds or raises an Exception.    *)
(***************************************************************************)
MaxPasteRetries == 10

\* what the writers leave alone
SheetFrame == UNCHANGED <<rpcVars, dlVars, ohVars, poVars, runVars, aggVars, fixVars>>

\* worksheet.batch_clear / worksheet.clear, set_with_dataframe, worksheet.update
worksheet_call(op, ok) == sheet_ops' = Append(sheet_ops, <<paste_attempt, op, ok>>)

paste_skips_never(empty) == FALSE

\* if dataframe.empty: return True
paste_skips(empty) == empty

\* the cap of wait_time = min(2 ** attempt, 60)
PasteWaitCap == 60

paste_wait_time_uncapped(attempt) == Pow2(attempt)

\* wait_time = min(2 ** attempt, 60)
paste_wait_time(attempt) == Min(Pow2(attempt), PasteWaitCap)

paste_may_retry_once_more(attempt, budget) == attempt <= budget

\* if attempt < max_retries
paste_may_retry(attempt, budget) == attempt < budget

\* return True / return False
PasteReturn(value) ==
    /\ sheet_pc' = "returned"
    /\ paste_result' = value

\* except Exception: wait and start the next attempt, or return False after
\* the last one
PasteFailed ==
    IF paste_may_retry(paste_attempt, paste_max_retries)
    THEN /\ paste_sleeps' = Append(paste_sleeps, paste_wait_time(paste_attempt))
         /\ paste_attempt' = paste_attempt + 1
         /\ sheet_pc' = "paste"
         /\ UNCHANGED paste_result
    ELSE /\ PasteReturn(PyFalse)
         /\ UNCHANGED <<paste_attempt, paste_sleeps>>

\* an empty dataframe: return True at once
PasteEmpty ==
    /\ sheet_script = "ot_head"
    /\ sheet_pc = "paste"
    /\ paste_skips(dataframe_empty)
    /\ PasteReturn(PyTrue)
    /\ UNCHANGED <<sheet_script, dataframe_empty, paste_max_retries, paste_attempt, sheet_ops,
                   paste_sleeps>>
    /\ SheetFrame

\* the for loop runs out (max_retries < 1): return False
PasteLoopEnd ==
    /\ sheet_script = "ot_head"
    /\ sheet_pc = "paste"
    /\ ~paste_skips(dataframe_empty)
    /\ paste_attempt > paste_max_retries
    /\ PasteReturn(PyFalse)
    /\ UNCHANGED <<sheet_script, dataframe_empty, paste_max_retries, paste_attempt, sheet_ops,
                   paste_sleeps>>
    /\ SheetFrame

\* an attempt starts: worksheet.batch_clear(["A:G"]), then time.sleep(2)
PasteClear ==
    /\ sheet_script = "ot_head"
    /\ sheet_pc = "paste"
    /\ ~paste_skips(dataframe_empty)
    /\ paste_attempt <= paste_max_retries
    /\ \E ok \in BOOLEAN :
        /\ worksheet_call("clear", ok)
        /\ IF ok
           THEN /\ sheet_pc' = "write"
                /\ UNCHANGED <<paste_attempt, paste_sleeps, paste_result>>
           ELSE PasteFailed
    /\ UNCHANGED <<sheet_script, dataframe_empty, paste_max_retries>>
    /\ SheetFrame

\* set_with_dataframe(worksheet, dataframe, row=1, col=1)
PasteWrite ==
    /\ sheet_script = "ot_head"
    /\ sheet_pc = "write"
    /\ \E ok \in BOOLEAN :
        /\ worksheet_call("write", ok)
        /\ IF ok
           THEN /\ sheet_pc' = "timestamp"
                /\ UNCHANGED <<paste_attempt, paste_sleeps, paste_result>>
           ELSE PasteFailed
    /\ UNCHANGED <<sheet_script, dataframe_empty, paste_max_retries>>
    /\ SheetFrame

\* worksheet.update("AC1", [[local_time]]) and return True
PasteTimestamp ==
    /\ sheet_script = "ot_head"
    /\ sheet_pc = "timestamp"
    /\ \E ok \in BOOLEAN :
        /\ worksheet_call("timestamp", ok)
        /\ IF ok
           THEN /\ PasteReturn(PyTrue)
                /\ UNCHANGED <<paste_attempt, paste_sleeps>>
           ELSE PasteFailed
    /\ UNCHANGED <<sheet_script, dataframe_empty, paste_max_retries>>
    /\ SheetFrame

\* purchase_orders.py: if df.empty: skip
PurchaseSkipEmpty ==
    /\ sheet_script = "purchase_orders"
    /\ sheet_pc = "paste"
    /\ dataframe_empty
    /\ sheet_pc' = "done"
    /\ UNCHANGED <<sheet_script, dataframe_empty, paste_max_retries, paste_attempt, sheet_ops,
                   paste_sleeps, paste_result>>
    /\ SheetFrame

\* one worksheet call of purchase_orders.py: an exception ends the process
PurchaseSheetCall(op, next_pc) ==
    /\ sheet_script = "purchase_orders"
    /\ \E ok \in BOOLEAN :
        /\ worksheet_call(op, ok)
        /\ sheet_pc' = IF ok THEN next_pc ELSE "raised"
    /\ UNCHANGED <<sheet_script, dataframe_empty, paste_max_retries, paste_attempt,
                   paste_sleeps, paste_result>>
    /\ SheetFrame

\* worksheet.clear(), then time.sleep(2)
PurchaseSheetClear ==
    /\ sheet_pc = "paste"
    /\ ~dataframe_empty
    /\ PurchaseSheetCall("clear", "write")

\* set_with_dataframe(worksheet, df)
PurchaseSheetWrite ==
    /\ sheet_pc = "write"
    /\ PurchaseSheetCall("write", "timestamp")

\* worksheet.update("AC1", [[local_time]])
PurchaseSheetTimestamp ==
    /\ sheet_pc = "timestamp"
    /\ PurchaseSheetCall("timestamp", "done")

\* one statement of step 7 of Ot_data_fetch.py that calls no worksheet:
\* except Exception ... continue
UploadStep(next_pc) ==
    /\ sheet_script = "Ot_data_fetch"
    /\ \E ok \in BOOLEAN :
        sheet_pc' = IF ok THEN next_pc ELSE "skipped"
    /\ UNCHANGED <<sheet_script, dataframe_empty, paste_max_retries, paste_attempt, sheet_ops,
                   paste_sleeps, paste_result>>
    /\ SheetFrame

\* one worksheet call of step 7 of Ot_data_fetch.py
UploadSheetCall(op, next_pc) ==
    /\ sheet_script = "Ot_data_fetch"
    /\ \E ok \in BOOLEAN :
        /\ worksheet_call(op, ok)
        /\ sheet_pc' = IF ok THEN next_pc ELSE "skipped"
    /\ UNCHANGED <<sheet_script, dataframe_empty, paste_max_retries, paste_attempt,
                   paste_sleeps, paste_result>>
    /\ SheetFrame

\* df_cost = pd.read_excel(filename, sheet_name=1) and smart_fix_dates_in_dataframe
UploadReadExcel ==
    /\ sheet_pc = "read_excel"
    /\ UploadStep("open")

\* client.open_by_key(...) and sheet_new.worksheet(...)
UploadOpen ==
    /\ sheet_pc = "open"
    /\ UploadStep("clear")

\* worksheet_new.batch_clear([clear_range])
UploadClear ==
    /\ sheet_pc = "clear"
    /\ UploadSheetCall("clear", "write")

\* set_with_dataframe(worksheet_new, df_cost, row=1, col=2, ...): the end of
\* the try block
UploadWrite ==
    /\ sheet_pc = "write"
    /\ UploadSheetCall("write", "done")

SheetInit ==
    /\ sheet_script \in {"ot_head", "purchase_orders", "Ot_data_fetch"}
    /\ sheet_pc = IF sheet_script = "Ot_data_fetch" THEN "read_excel" ELSE "paste"
    /\ dataframe_empty \in BOOLEAN
    /\ paste_max_retries \in (IF sheet_script = "ot_head" THEN 0..MaxPasteRetries ELSE {0})
    /\ paste_attempt = 1
    /\ sheet_ops = <<>>
    /\ paste_sleeps = <<>>
    /\ paste_result = None
    /\ SafePostOff
    /\ DownloadOff
    /\ OtHeadOff
    /\ PurchaseOff
    /\ RunOff
    /\ AggOff
    /\ FixOff

SheetNext ==
    \/ PasteEmpty
    \/ PasteLoopEnd
    \/ PasteClear
    \/ PasteWrite
    \/ PasteTimestamp
    \/ PurchaseSkipEmpty
    \/ PurchaseSheetClear
    \/ PurchaseSheetWrite
    \/ PurchaseSheetTimestamp
    \/ UploadReadExcel
    \/ UploadOpen
    \/ UploadClear
    \/ UploadWrite

SpecSheet == SheetInit /\ [][SheetNext]_vars

\* the worksheet call number k
OpAttempt(k) == sheet_ops[k][1]

OpName(k) == sheet_ops[k][2]

OpSucceeded(k) == sheet_ops[k][3]

\* the writer is through: returned, skipped, done or ended by an exception
SheetFinished == sheet_pc \in {"returned", "skipped", "done", "raised"}

\* C24: in all three scripts a dataset is written as a clear, then the bulk
\* write, then the timestamp: a bulk write directly follows a successful
\* clear of the same attempt, and a successful bulk write is followed by a
\* timestamp write.
C24_ClearWriteTimestamp ==
    /\ \A k \in 1..Len(sheet_ops) :
        OpName(k) = "write" =>
            /\ k > 1
            /\ OpName(k - 1) = "clear"
            /\ OpSucceeded(k - 1)
            /\ OpAttempt(k - 1) = OpAttempt(k)
    /\ SheetFinished =>
        \A k \in 1..Len(sheet_ops) :
            (OpName(k) = "write" /\ OpSucceeded(k)) =>
                /\ k < Len(sheet_ops)
                /\ OpName(k + 1) = "timestamp"
                /\ OpAttempt(k + 1) = OpAttempt(k)

\* the same statement for ot_head.py and purchase_orders.py alone
C24_TimestampInOtHeadAndPurchase ==
    sheet_script # "Ot_data_fetch" => C24_ClearWriteTimestamp


(***************************************************************************)
(* The report run: when the worksheet of a company is touched, SpecRun.    *)
(***************************************************************************)
\* the sheet service was called for company c (open, clear or write)
SheetsTouched(c) ==
    \E k \in 1..Len(requests) : requests[k][1] = "sheets" /\ requests[k][2] = c

\* the download call made last was the one of company c: report_resp is
\* what it returned
LastDownloadFor(c) ==
    \E k \in 1..Len(requests) :
        /\ requests[k][1] = "download"
        /\ requests[k][2] = c
        /\ \A j \in (k + 1)..Len(requests) : requests[j][1] # "download"

\* a download of company c went out before its sheet was touched
DownloadBeforeSheets(c) ==
    \A k \in 1..Len(requests) :
        (requests[k][1] = "sheets" /\ requests[k][2] = c) =>
            \E j \in 1..(k - 1) : requests[j][1] = "download" /\ requests[j][2] = c

UntouchedExits ==
    { "onchange failed", "web_save failed", "no wizard_id", "call_button failed",
      "download failed", "parse failed" }

\* C25: the worksheet of a company is touched only after the download of
\* that company returned a status-200 spreadsheet and the file was parsed;
\* a company whose onchange, web_save, call_button or download failed has
\* its worksheet left alone.
C25_SheetOnlyAfterDownload ==
    \A i \in 1..Len(COMPANY_IDS) :
        LET c == COMPANY_IDS[i]
        IN  /\ unit_exit[i] \in UntouchedExits => ~SheetsTouched(c)
            /\ SheetsTouched(c) =>
                /\ unit_exit[i] \in {"uploaded", "upload failed"}
                /\ DownloadBeforeSheets(c)
                /\ LastDownloadFor(c) =>
                    /\ report_resp # None
                    /\ is_valid_download(report_resp)

\* the first company's download failed and its sheet was left alone; the
\* second company's spreadsheet was uploaded
C25_Witness ==
    /\ unit_exit = <<"download failed", "uploaded">>
    /\ ~SheetsTouched(COMPANY_IDS[1])
    /\ SheetsTouched(COMPANY_IDS[2])
    /\ LastDownloadFor(COMPANY_IDS[2])
    /\ is_valid_download(report_resp)


(***************************************************************************)
(* Claims about the worksheet writers of ot_head.py and                    *)
(* purchase_orders.py, checked under SpecSheet.                            *)
(***************************************************************************)
\* C26: with an empty dataset the worksheet is neither cleared nor written
\* and gets no timestamp: paste_to_sheet_with_retry returns True without a
\* worksheet call, and purchase_orders.py skips clear, write and timestamp.
C26_EmptyDatasetLeavesSheet ==
    (sheet_script \in {"ot_head", "purchase_orders"} /\ dataframe_empty) =>
        /\ sheet_ops = <<>>
        /\ paste_sleeps = <<>>
        /\ sheet_pc \in {"paste", "returned", "done"}
        /\ sheet_pc = "returned" => paste_result = PyTrue
        /\ sheet_pc # "returned" => paste_result = None

\* paste_to_sheet_with_retry has returned for an empty dataframe
C26_Witness ==
    /\ sheet_script = "ot_head"
    /\ dataframe_empty
    /\ sheet_pc = "returned"
    /\ paste_result = PyTrue
    /\ sheet_ops = <<>>


\* the worksheet calls that raised
FailedOps == { k \in 1..Len(sheet_ops) : ~OpSucceeded(k) }

\* attempt a made its clear, write and timestamp calls without an error
AttemptComplete(a) ==
    \E k \in 1..(Len(sheet_ops) - 2) :
        /\ sheet_ops[k] = <<a, "clear", TRUE>>
        /\ sheet_ops[k + 1] = <<a, "write", TRUE>>
        /\ sheet_ops[k + 2] = <<a, "timestamp", TRUE>>

\* min(60, 2^a)
CappedWait(a) == IF 2 ^ a > 60 THEN 60 ELSE 2 ^ a

\* C27: paste_to_sheet_with_retry with a non-empty dataframe makes at most
\* max_retries attempts, each starting with a clear; it returns True exactly
\* when an attempt completed clear, write and timestamp, and stops there; it
\* returns False exactly after max_retries failed attempts; it never raises;
\* after the failed attempt a < max_retries it sleeps min(60, 2^a) seconds.
C27_PasteRetryContract ==
    (sheet_script = "ot_head" /\ ~dataframe_empty) =>
        /\ sheet_pc # "raised"
        /\ \A k \in 1..Len(sheet_ops) :
            /\ OpAttempt(k) >= 1
            /\ OpAttempt(k) <= paste_max_retries
            /\ k = 1 => (OpAttempt(k) = 1 /\ OpName(k) = "clear")
            /\ k > 1 =>
                IF OpSucceeded(k - 1)
                THEN OpAttempt(k) = OpAttempt(k - 1) /\ OpName(k) # "clear"
                ELSE OpAttempt(k) = OpAttempt(k - 1) + 1 /\ OpName(k) = "clear"
            /\ (OpName(k) = "timestamp" /\ OpSucceeded(k)) =>
                (k = Len(sheet_ops) /\ sheet_pc = "returned")
        /\ Cardinality(FailedOps) <= paste_max_retries
        /\ (Cardinality(FailedOps) = paste_max_retries /\ paste_max_retries >= 1) =>
            sheet_pc = "returned"
        /\ sheet_pc = "returned" =>
            /\ paste_result \in {PyTrue, PyFalse}
            /\ paste_result = PyTrue <=> \E a \in 1..paste_max_retries : AttemptComplete(a)
            /\ paste_result = PyFalse <=> Cardinality(FailedOps) = paste_max_retries
        /\ sheet_pc # "returned" => paste_result = None
        /\ Len(paste_sleeps) = (IF paste_result = PyFalse /\ paste_max_retries >= 1
                                THEN Cardinality(FailedOps) - 1
                                ELSE Cardinality(FailedOps))
        /\ \A a \in 1..Len(paste_sleeps) : paste_sleeps[a] = CappedWait(a)

\* the seventh attempt succeeded, after six failed ones and a capped wait
C27_Witness ==
    /\ sheet_script = "ot_head"
    /\ ~dataframe_empty
    /\ sheet_pc = "returned"
    /\ paste_result = PyTrue
    /\ AttemptComplete(7)
    /\ paste_sleeps = <<2, 4, 8, 16, 32, 60>>
    /\ paste_max_retries = MaxPasteRetries

\* every attempt of the budget failed: False, without a wait after the last
C27_WitnessExhausted ==
    /\ sheet_script = "ot_head"
    /\ ~dataframe_empty
    /\ paste_max_retries = 3
    /\ sheet_pc = "returned"
    /\ paste_result = PyFalse
    /\ paste_sleeps = <<2, 4>>
    /\ Cardinality(FailedOps) = 3


(***************************************************************************)
(* fetch_attendance: the retry budget of a page, SpecOtHead.               *)
(***************************************************************************)
\* the request failed: an exception, or a document without "result"
IsFailedRequest(o) ==
    \/ exception_raised(o) # "none"
    \/ "result" \notin DOMAIN o.doc

\* C28: the retry budget of fetch_attendance is per page: the attempt
\* counter counts the failures at the current offset only, whatever earlier
\* pages cost, and a page is given up only after max_retries failures in a
\* row at its offset.
C28_BudgetPerPage ==
    /\ oh_pc = "attendance" =>
        /\ att_attempt = Len(att_log) + 1
        /\ \A k \in 1..Len(att_log) :
            IsFailedRequest(att_log[k][2]) /\ att_log[k][1] = offset
    /\ att_exit \in {"exception", "no_result"} =>
        /\ max_retries >= 1
        /\ Len(att_log) = max_retries
        /\ \A k \in 1..Len(att_log) :
            IsFailedRequest(att_log[k][2]) /\ att_log[k][1] = offset
    /\ spent <= max_retries - 1 \/ spent = 0

\* the first page took max_retries - 1 failures, the second page has had
\* as many and is tried once more
C28_Witness ==
    /\ oh_pc = "attendance"
    /\ max_retries = MaxFetchRetries
    /\ Len(pages) = 1
    /\ spent = max_retries - 1
    /\ Len(att_log) = max_retries - 1
    /\ att_attempt = max_retries
    /\ spent + Len(att_log) > max_retries


(***************************************************************************)
(* Termination of the retrying functions.  The scripts are sequential and  *)
(* synchronous: a request returns or raises (the HTTP calls carry a        *)
(* timeout), a sleep ends, and the next statement runs.  So a step that    *)
(* is possible is eventually taken: weak fairness of the next-state        *)
(* relation.                                                               *)
(***************************************************************************)
\* the largest budget of attempts a function is called with here
MaxBudget == 3

\* one of the five functions is called
TerminationInit ==
    \/ SafePostInit /\ retries <= MaxBudget
    \/ DownloadInit /\ max_attempts <= MaxBudget
    \/ OtHeadInit /\ max_retries < MaxBudget
    \/ SheetInit /\ sheet_script = "ot_head" /\ paste_max_retries <= MaxBudget

\* the steps of paste_to_sheet_with_retry
PasteNext ==
    \/ PasteEmpty
    \/ PasteLoopEnd
    \/ PasteClear
    \/ PasteWrite
    \/ PasteTimestamp

TerminationNext == SafePostNext \/ DownloadNext \/ OtHeadNext \/ PasteNext

SpecTermination ==
    TerminationInit /\ [][TerminationNext]_vars /\ WF_vars(TerminationNext)

\* the function that was called has returned (or the process has ended)
Finished ==
    \/ rpc_pc = "done"
    \/ dl_pc \in {"valid", "final_network", "final_attempt", "loop_end"}
    \/ oh_pc \in {"returned", "raised"}
    \/ SheetFinished

\* the request was answered by an empty page
IsEmptyPage(o) ==
    /\ exception_raised(o) = "none"
    /\ "result" \in DOMAIN o.doc
    /\ o.doc.result = <<>>

\* no function makes more attempts than its budget; fetch_attendance stops
\* at the first empty page, or at max_retries failures in a row
WithinBudget ==
    /\ Len(rpc_posts) <= retries
    /\ Len(dl_posts) <= max_attempts
    /\ Len(emp_log) <= max_retries
    /\ oh_pc = "employees" => Len(emp_log) < max_retries \/ max_retries = 0
    /\ Len(att_log) <= max_retries
    /\ \A k \in 1..Len(sheet_ops) : OpAttempt(k) <= paste_max_retries \/ sheet_script # "ot_head"
    /\ \A k \in 1..Len(att_log) :
        IsEmptyPage(att_log[k][2]) =>
            (k = Len(att_log) /\ oh_pc = "returned" /\ att_exit = "empty")
    /\ oh_pc = "returned" =>
        \/ /\ att_exit = "empty"
           /\ \/ max_retries = 0
              \/ (att_log # <<>> /\ IsEmptyPage(att_log[Len(att_log)][2]))
        \/ /\ att_exit \in {"exception", "no_result"}
           /\ Len(att_log) = max_retries
           /\ \A k \in 1..Len(att_log) : IsFailedRequest(att_log[k][2])

\* C29: safe_post_json, download_report_with_retries, fetch_all_employees
\* and paste_to_sheet_with_retry finish within their budget of attempts
\* whatever the outcomes; fetch_attendance finishes at the first empty page
\* or after max_retries failures in a row on one page, and sends nothing
\* after the first empty page.
C29_Termination == <>Finished /\ []WithinBudget

\* fetch_attendance returned at the empty page that followed two pages,
\* the last of them fetched after retries
C29_Witness ==
    /\ oh_pc = "returned"
    /\ att_exit = "empty"
    /\ Len(pages) = MaxPages
    /\ spent >= 1
    /\ Len(att_log) >= 2
    /\ IsEmptyPage(att_log[Len(att_log)][2])


(***************************************************************************)
(* smart_fix_dates_in_dataframe(df, date_from_str, date_to_str) of         *)
(* Ot_data_fetch.py, on one object column.  A cell is NaN or a string; a   *)
(* string is kept as the words str.split() gives.  Dates are <<year,       *)
(* month>>.                                                                *)
(***************************************************************************)
MaxCells == 2

\* sample = df[col].dropna().astype(str).head(10)
SampleSize == 10

\* month_names
month_names == <<"Jan", "Feb", "Mar", "Apr", "May", "Jun",
                 "Jul", "Aug", "Sep", "Oct", "Nov", "Dec">>

NaN == [isna |-> TRUE, parts |-> <<>>]

Str(words) == [isna |-> FALSE, parts |-> words]

\* the cells a column is made of
CellPool ==
    { NaN,
      Str(<<"26", "Jul", "Fri">>),
      Str(<<"05", "Jan", "Mon">>),
      Str(<<"31", "Dec", "Wed">>),
      Str(<<"26", "jul", "Fri">>),
      Str(<<"Total", "26", "Jul", "Fri">>),
      Str(<<"26", "Jul">>),
      Str(<<"Remarks">>) }

\* the columns: up to MaxCells cells
Columns == UNION { [1..n -> CellPool] : n \in 1..MaxCells }

\* the ranges: from_date in 2025, to_date in 2025 or 2026
FromDates == {2025} \X (1..12)

ToDates == {2025, 2026} \X (1..12)

\* \d{1,2} at the end of a word
ends_with_digits(word) == word \in {"26", "05", "31"}

\* (Jan|Feb|...|Dec) under re.IGNORECASE, as a whole word: the number of
\* the month, 0 when the word is none
month_ignorecase(word) ==
    IF \E m \in 1..12 : month_names[m] = word
    THEN CHOOSE m \in 1..12 : month_names[m] = word
    ELSE IF word = "jul" THEN 7 ELSE 0

\* \w{3} at the start of a word
starts_with_3_word_chars(word) == word \in {"Fri", "Mon", "Wed", "Jul", "jul", "Jan", "Dec", "Total", "Remarks"}

\* re.search(date_pattern, val_str, re.IGNORECASE): where the match starts,
\* 0 when there is none
match_at(parts) ==
    LET starts == { i \in 1..(Len(parts) - 2) :
                        /\ ends_with_digits(parts[i])
                        /\ month_ignorecase(parts[i + 1]) # 0
                        /\ starts_with_3_word_chars(parts[i + 2]) }
    IN  IF starts = {} THEN 0 ELSE CHOOSE i \in starts : \A j \in starts : i <= j

\* month_num = month_names.index(month) + 1 if month in month_names else 1
month_num(month) ==
    IF \E m \in 1..12 : month_names[m] = month
    THEN CHOOSE m \in 1..12 : month_names[m] = month
    ELSE 1

\* the year chosen for month_num
year_for(n, from, to) ==
    IF from[1] = to[1] THEN from[1]
    ELSE IF n >= from[2] THEN from[1]
    ELSE to[1]

\* str(year)
year_str(y) ==
    CASE y = 2025 -> "2025"
      [] y = 2026 -> "2026"
      [] OTHER -> "0"

\* new_val = f"{day} {month} {year} {parts[2] if len(parts) > 2 else ''}".strip()
new_val(parts, from, to) ==
    LET day == parts[1]
        month == parts[2]
        year == year_str(year_for(month_num(month), from, to))
    IN  IF Len(parts) > 2
        THEN <<day, month, year, parts[3]>>
        ELSE <<day, month, year>>

\* the loop body over the cells of a date column
fix_cell(val, from, to) ==
    IF val.isna THEN val
    ELSE IF match_at(val.parts) # 0 THEN Str(new_val(val.parts, from, to))
    ELSE val

\* the first n cells of col that are not NaN
RECURSIVE dropna_head(_, _)
dropna_head(col, n) ==
    IF col = <<>> \/ n = 0 THEN <<>>
    ELSE IF Head(col).isna THEN dropna_head(Tail(col), n)
    ELSE <<Head(col)>> \o dropna_head(Tail(col), n - 1)

\* has_dates = any(re.search(...) for val in sample)
has_dates(col) ==
    LET sample == dropna_head(col, SampleSize)
    IN  \E k \in 1..Len(sample) : match_at(sample[k].parts) # 0

\* df[col] after the call
smart_fix_dates(col, from, to) ==
    IF has_dates(col)
    THEN [i \in 1..Len(col) |-> fix_cell(col[i], from, to)]
    ELSE col

FixFrame == UNCHANGED <<rpcVars, dlVars, ohVars, poVars, runVars, aggVars, sheetVars>>

\* df_cost = smart_fix_dates_in_dataframe(df_cost, DATE_FROM, DATE_TO)
SmartFixDates ==
    /\ fix_pc = "call"
    /\ df_fixed' = smart_fix_dates(df_col, from_date, to_date)
    /\ fix_pc' = "returned"
    /\ UNCHANGED <<from_date, to_date, df_col>>
    /\ FixFrame

FixInit ==
    /\ fix_pc = "call"
    /\ from_date \in FromDates
    /\ to_date \in ToDates
    /\ df_col \in Columns
    /\ df_fixed = None
    /\ SafePostOff
    /\ DownloadOff
    /\ OtHeadOff
    /\ PurchaseOff
    /\ RunOff
    /\ AggOff
    /\ SheetOff

FixNext == SmartFixDates

SpecFix == FixInit /\ [][FixNext]_vars

(***************************************************************************)
(* Claims about smart_fix_dates_in_dataframe, checked under SpecFix.       *)
(***************************************************************************)
\* the number of calendar months from from_date to to_date, both included
MonthsCovered == (to_date[1] - from_date[1]) * 12 + to_date[2] - from_date[2] + 1

\* (y, m) lies between from_date and to_date
InRange(y, m) ==
    /\ from_date[1] * 12 + from_date[2] <= y * 12 + m
    /\ y * 12 + m <= to_date[1] * 12 + to_date[2]

\* the cell matches the day-month pattern
IsDayMonthCell(val) == ~val.isna /\ match_at(val.parts) # 0

\* the month the cell names
CellMonth(val) == month_ignorecase(val.parts[match_at(val.parts) + 1])

YearWords == {"2025", "2026", "0"}

\* the years written into the cell
YearsWritten(val) == { val.parts[k] : k \in 1..Len(val.parts) } \cap YearWords

\* the cell was given the year y, after its day and month
HasYear(val, y) ==
    /\ ~val.isna
    /\ YearsWritten(val) = {year_str(y)}

\* cells without a match, and empty cells, are as they were
OtherCellsUnchanged ==
    \A i \in 1..Len(df_col) :
        ~IsDayMonthCell(df_col[i]) => df_fixed[i] = df_col[i]

\* C30: for a range of at most 12 calendar months, every day-month cell
\* whose month occurs in the range is given the year y for which (y, month)
\* lies in the range; cells that do not match the pattern and empty cells
\* stay as they are.
C30_CorrectYear ==
    fix_pc = "returned" =>
        /\ Len(df_fixed) = Len(df_col)
        /\ OtherCellsUnchanged
        /\ MonthsCovered \in 1..12 =>
            \A i \in 1..Len(df_col) :
                IsDayMonthCell(df_col[i]) =>
                    \A y \in {from_date[1], to_date[1]} :
                        InRange(y, CellMonth(df_col[i])) => HasYear(df_fixed[i], y)

\* the cell starts with the day and names the month as month_names spells it
IsPlainDayMonthCell(val) ==
    /\ IsDayMonthCell(val)
    /\ match_at(val.parts) = 1
    /\ \E m \in 1..12 : month_names[m] = val.parts[2]

\* the same statement for the cells that start with the day and spell the
\* month with a capital initial
C30_PlainCellsCorrectYear ==
    fix_pc = "returned" =>
        /\ Len(df_fixed) = Len(df_col)
        /\ OtherCellsUnchanged
        /\ MonthsCovered \in 1..12 =>
            \A i \in 1..Len(df_col) :
                IsPlainDayMonthCell(df_col[i]) =>
                    \A y \in {from_date[1], to_date[1]} :
                        InRange(y, CellMonth(df_col[i])) => HasYear(df_fixed[i], y)

\* July 2025 to January 2026: "26 Jul Fri" got 2025 and "05 Jan Mon" 2026
C30_PlainWitness ==
    /\ fix_pc = "returned"
    /\ from_date = <<2025, 7>>
    /\ to_date = <<2026, 1>>
    /\ df_col = <<Str(<<"26", "Jul", "Fri">>), Str(<<"05", "Jan", "Mon">>)>>
    /\ df_fixed = <<Str(<<"26", "Jul", "2025", "Fri">>), Str(<<"05", "Jan", "2026", "Mon">>)>>

====
